---- MODULE Spec2Model ----
(***************************************************************************)
(* alphamail: the inbound-email webhook (pages/api/email/inbound.ts), its  *)
(* record store (profiles, goals, emails, pending_emails, groups,          *)
(* group_members, group_goals), the outbound mail transport, the retry     *)
(* wrapper of the model calls (lib/ai.ts, withRetry) and the weekly        *)
(* check-in job (pages/api/email/checkin.ts).                              *)
(***************************************************************************)
EXTENDS Integers, Sequences, FiniteSets, TLC

VARIABLES
  rt,               \* the activation record of withRetry
  secretConfigured, \* RESEND_WEBHOOK_SECRET(_INBOUND) is set in the environment
  scope,            \* which deliveries the run considers (fixed by Init)
  cronSecret,       \* CRON_SECRET is set in the environment
  group_goals,      \* table group_goals, in creation order
  job,              \* the weekly check-in job: position in GET and locals
  tr,               \* a thread resolution made twice on one store
  profiles,         \* table profiles, one row per address at most (user_id = address)
  goals,            \* table goals, in creation order; a goal's id is its position
  emails,           \* table emails, in creation order; a row's id is its position
  pending_emails,   \* table pending_emails, in creation order
  groups,           \* table groups, in creation order; a group's id is its position
  group_members,    \* table group_members
  outbox,           \* what the mail transport accepted, in order
  req               \* the webhook requests: position in the handler and locals

NULL == "null"

env == <<rt, secretConfigured, scope, cronSecret, group_goals, job, tr>>
store == <<profiles, goals, emails, pending_emails, groups, group_members>>
vars == <<rt, secretConfigured, scope, cronSecret, group_goals, job, tr, profiles,
          goals, emails, pending_emails, groups, group_members, outbox, req>>
handlerVars == <<secretConfigured, scope, cronSecret, group_goals, job, tr, profiles,
                 goals, emails, pending_emails, groups, group_members, outbox, req>>

(***************************************************************************)
(* lib/ai.ts: withRetry                                                    *)
(***************************************************************************)
MAX_RETRIES == 3
INITIAL_DELAY_MS == 1000

RECURSIVE Pow2(_)
Pow2(n) == IF n = 0 THEN 1 ELSE 2 * Pow2(n - 1)

\* What one invocation of the wrapped call fn() does: it returns, or it throws
\* an error with a class name and (for provider errors) an HTTP status.
FnOk == [ok |-> TRUE, name |-> "", status |-> 0]
FnErr(n, s) == [ok |-> FALSE, name |-> n, status |-> s]
FnOutcomes ==
  {FnOk, FnErr("APIError", 401), FnErr("APIError", 403),
   FnErr("APIError", 529), FnErr("SyntaxError", 0)}

NoError == [ok |-> FALSE, name |-> NULL, status |-> 0]

\* rt is the activation record of one withRetry(fn) call: script[k] is what
\* the k-th invocation of fn does.
RetryOff ==
  [pc |-> "off", script |-> <<>>, retries |-> 0, attempt |-> 0, calls |-> 0,
   delays |-> <<>>, lastError |-> NoError, thrown |-> NoError]

RetryStart(script) ==
  [pc |-> "loop", script |-> script, retries |-> MAX_RETRIES, attempt |-> 0,
   calls |-> 0, delays |-> <<>>, lastError |-> NoError, thrown |-> NoError]

\* A bug that forgets the permission status.
IsAuthErrorOnly401(e) == e.status = 401

IsAuthError(e) == e.status = 401 \/ e.status = 403

\* What withRetry throws once the loop is over.
ExhaustedError(lastError) == lastError

\* for (let attempt = 0; attempt < retries; attempt++) ... throw lastError
RetryLoopTest ==
  /\ rt.pc = "loop"
  /\ rt' = IF rt.attempt < rt.retries
           THEN [rt EXCEPT !.pc = "call"]
           ELSE [rt EXCEPT !.pc = "thrown", !.thrown = ExhaustedError(rt.lastError)]
  /\ UNCHANGED handlerVars

\* A bug that waits the backoff delay after every failed attempt, the last
\* one included.
AfterFailureAlwaysWaits(r, e) ==
  IF IsAuthError(e)
  THEN [r EXCEPT !.pc = "thrown", !.thrown = e]
  ELSE [r EXCEPT !.pc = "wait"]

\* Where the catch block goes after a failed attempt.
AfterFailure(r, e) ==
  IF IsAuthError(e)
  THEN [r EXCEPT !.pc = "thrown", !.thrown = e]
  ELSE IF r.attempt < r.retries - 1
       THEN [r EXCEPT !.pc = "wait"]
       ELSE [r EXCEPT !.pc = "loop", !.attempt = r.attempt + 1]

\* try { return await fn(); } catch (error) { lastError = error; ... }
RetryCall ==
  /\ rt.pc = "call"
  /\ LET n == rt.calls + 1
         o == rt.script[n]
         called == [rt EXCEPT !.calls = n]
     IN rt' = IF o.ok
              THEN [called EXCEPT !.pc = "returned"]
              ELSE AfterFailure([called EXCEPT !.lastError = o], o)
  /\ UNCHANGED handlerVars

BackoffDelay(attempt) == INITIAL_DELAY_MS * Pow2(attempt)

\* await new Promise(resolve => setTimeout(resolve, delay)), then attempt++
RetryBackoff ==
  /\ rt.pc = "wait"
  /\ rt' = [rt EXCEPT !.pc = "loop",
                      !.delays = Append(rt.delays, BackoffDelay(rt.attempt)),
                      !.attempt = rt.attempt + 1]
  /\ UNCHANGED handlerVars

(***************************************************************************)
(* The record store and the mail transport                                 *)
(***************************************************************************)
\* Deliveries handled one after another in a run. A run that studies races
\* admits one delivery more, so that two can be in flight (scope.requests).
MaxRequests == 1

Reqs == 1..(MaxRequests + 1)

\* A draw from full, kept to narrow in a run that only studies check-in replies.
Inputs(full, narrow) == IF scope.narrow THEN narrow ELSE full

\* Addresses. Mail arrives from the addresses in Senders; the others can be
\* CC'd and can hold accounts.
Addrs == {"a", "b"}
Senders == {"a"}

\* The first name an address's owner gives when asked.
NameOf(addr) == IF addr = "a" THEN "Ann" ELSE "Bob"

\* A subject line is a sequence of words; <<>> is a missing or empty subject.
Subjects == {<<>>, <<"re:", "t1">>}

\* toLowerCase(), word by word.
Lower(w) ==
  CASE w = "Re:" -> "re:" [] w = "RE:" -> "re:" [] w = "T1" -> "t1" [] OTHER -> w

LowerSeq(words) == [i \in 1..Len(words) |-> Lower(words[i])]

\* (subject || "").toLowerCase().startsWith("re:")
StartsWithRe(subject) == Len(subject) > 0 /\ Lower(subject[1]) = "re:"

\* startsWith("re:") ? subject : "re: " + (subject || dflt)
ReplySubject(subject, dflt) ==
  IF StartsWithRe(subject) THEN subject
  ELSE <<"re:">> \o (IF subject = <<>> THEN <<dflt>> ELSE subject)

\* subject || dflt
SubjectOr(subject, dflt) == IF subject = <<>> THEN <<dflt>> ELSE subject

\* The note about CC'd people appended to a reply, by what it says.
NoNote == [note |-> "none", names |-> {}]

\* email_status: 'active' by default, 'bounced' or 'complained' (migration 005).
NoProfile ==
  [exists |-> FALSE, onboarded |-> FALSE, first_name |-> NULL, summary |-> 0,
   email_status |-> NULL]
NewProfile ==
  [exists |-> TRUE, onboarded |-> FALSE, first_name |-> NULL, summary |-> 0,
   email_status |-> "active"]
OnboardedProfile(addr) ==
  [exists |-> TRUE, onboarded |-> TRUE, first_name |-> NameOf(addr), summary |-> 0,
   email_status |-> "active"]

\* goals.insert({user_id, description, due_date}): completed defaults to
\* false, completed_at to null (0); by is the request that inserted the row
\* (0: the signup page).
\* Days are counted in UTC from a Sunday (day 0): the weekday of day d is
\* d % 7, 0 a Sunday. Rows that were there before the run are of the day a
\* week before, due on day 0.
NewGoal(user, description, by) ==
  [user_id |-> user, description |-> description, completed |-> FALSE,
   completed_at |-> 0, created_on |-> -7, due_date |-> 0, by |-> by]

\* The clock new Date() reads: the UTC date of the instant, and how far the
\* date in the server's time zone is from it at that instant (0 wherever the
\* server runs in UTC).
Clocks == [day : 0..6, local : {-1, 0, 1}]

\* A server in UTC on a Sunday.
UtcSunday == [day |-> 0, local |-> 0]

\* The instants a goal can be inserted at: any, in a run that studies due
\* dates (scope.clock).
Now == IF scope.clock THEN Clocks ELSE {UtcSunday}

\* const nextSunday = new Date();
\* nextSunday.setDate(nextSunday.getDate() + (7 - nextSunday.getDay()));
\* due_date: nextSunday.toISOString().split("T")[0]
\* getDate, getDay and setDate work on the date in the server's zone and keep
\* the time of day; toISOString prints the UTC date of the instant reached.
nextSunday(now) ==
  LET getDate == now.day + now.local
      getDay == getDate % 7
      setDate == getDate + (7 - getDay)
  IN setDate - now.local

\* goals.insert({user_id, description, due_date}) at now; created_at
\* defaults to now().
GoalAt(now, user, description, by) ==
  [NewGoal(user, description, by) EXCEPT !.created_on = now.day,
                                         !.due_date = nextSunday(now)]

\* emails.insert({user_id, direction, subject, content, thread_id}); by is the
\* request that inserted the row. created_at defaults to now(), the time of the
\* inserting statement: Inserted stamps it.
\* Content is kept by what the handler reads in it: which reply it is, the CC
\* note it carries and, for an inbound row, which delivery's text it is (msg).
NewEmail(user, direction, subject, kind, note, msg, thread, by) ==
  [user_id |-> user, direction |-> direction, subject |-> subject,
   content |-> [kind |-> kind, cc |-> note, msg |-> msg], thread_id |-> thread,
   annotated |-> FALSE, by |-> by, created_at |-> 0]

\* The table after one insert statement: the rows of one statement share its
\* time, and statements run at distinct times.
Inserted(table, rows) ==
  table \o [i \in 1..Len(rows) |-> [rows[i] EXCEPT !.created_at = Len(table) + 1]]

\* Rows inserted one statement each.
RECURSIVE InsertedEach(_, _)
InsertedEach(table, rows) ==
  IF rows = <<>> THEN table
  ELSE InsertedEach(Inserted(table, <<Head(rows)>>), Tail(rows))

\* sendEmail({to, subject, html, text}) as the transport accepted it.
\* closing: what the handler appended to the text about a next goal.
Mail(to, subject, kind, by) ==
  [to |-> to, subject |-> subject, kind |-> kind, closing |-> "none", by |-> by]

NoResponse == [status |-> 0, success |-> "absent", action |-> ""]
Response(status, success, action) ==
  [status |-> status, success |-> success, action |-> action]

NoParsed == [completed |-> FALSE, nextGoal |-> FALSE]

\* What the text of a message to a sender not yet onboarded can state: a
\* name, a goal, both, neither.
Statements == SUBSET {"name", "goal"}

\* A request before it arrives.
IdleRequest ==
  [pc |-> "idle", sig |-> NULL, json |-> TRUE, type |-> NULL, from |-> NULL,
   profile |-> NoProfile,
   subject |-> <<>>, cc |-> {}, confirm |-> FALSE, addNames |-> {},
   intent |-> FALSE, firstName |-> NULL, ccNote |-> NoNote, threadId |-> 0,
   history |-> <<>>, inboundId |-> 0, currentGoal |-> 0, groupNote |-> FALSE,
   parsed |-> NoParsed, askForNextGoal |-> FALSE, aiFailed |-> FALSE,
   modelCalls |-> 0, extraction |-> NULL, userMessage |-> {}, delivery |-> 0,
   existingPending |-> FALSE, existingThread |-> 0, pendingId |-> 0,
   pendingRead |-> <<>>, summary |-> "none", response |-> NoResponse]

\* The weekly check-in job before it is called. goals: the rows its select
\* returned; k: the one the loop is at; g, m: the group and the member the
\* group loop is at; logged: the id of the row just inserted.
IdleJob ==
  [pc |-> "idle", goals |-> <<>>, k |-> 0, logged |-> 0, sent |-> 0, skipped |-> 0,
   errors |-> <<>>, groups |-> <<>>, g |-> 0, m |-> 0, groupsSent |-> 0,
   response |-> NoResponse]

\* No thread resolution under study.
NoResolution == [pc |-> "off", user |-> NULL, subject |-> <<>>, first |-> 0, second |-> 0]

\* Nothing but the inbound handler runs.
HandlerOnly ==
  /\ cronSecret = TRUE
  /\ job = IdleJob
  /\ tr = NoResolution

\* The store as user/signup.ts leaves it for each address in onboarded: the
\* profile named and onboarded, a first goal, the welcome email logged with no
\* thread.
SignupGoals(onboarded) ==
  LET a == IF "a" \in onboarded THEN <<NewGoal("a", "signup goal", 0)>> ELSE <<>>
      b == IF "b" \in onboarded THEN <<NewGoal("b", "signup goal", 0)>> ELSE <<>>
  IN a \o b

SignupEmails(onboarded) ==
  LET log(x) == NewEmail(x, "outbound", <<"yo">>, "signup_welcome", NoNote, 0, 0, 0)
      a == IF "a" \in onboarded THEN <<log("a")>> ELSE <<>>
      b == IF "b" \in onboarded THEN <<log("b")>> ELSE <<>>
  IN a \o b

\* What the handler left in the store before the run starts. The sender is
\* unknown, has an account that is not onboarded, or is onboarded.
Phases == {"unknown", "created", "onboarded"}

\* The provisional message an earlier delivery of an unknown sender left
\* (handleNonAuthenticatedUser: the insert, then thread_id set to the row's id).
PriorPending ==
  <<[id |-> 1, email |-> "a", subject |-> <<"no subject">>, msg |-> -1,
     thread_id |-> 1, linked_user_id |-> NULL, by |-> 0]>>

\* The two rows an earlier check-in exchange of the sender left: the inbound
\* row, a thread of its own (its id is at), and the reply with its CC note.
PriorExchange(at, note, annotated) ==
  <<[NewEmail("a", "inbound", <<"re:", "t1">>, "inbound", NoNote, -1, at, 0)
       EXCEPT !.annotated = annotated],
    NewEmail("a", "outbound", <<"re:", "t1">>, "checkin", note, 0, at, 0)>>

\* handleCCUsers on an earlier message that CC'd b, before any group existed.
PriorNote(bOnboarded) ==
  IF bOnboarded THEN [note |-> "invite", names |-> {"Bob"}]
  ELSE [note |-> "nonuser", names |-> {"b"}]

\* The states of the store a run starts from. waiting: a provisional message
\* is waiting for the sender; exchange: an earlier check-in exchange is on
\* record, with or without a CC'd address; goal: that exchange left the goal
\* open, completed it, or named a next goal without completing it.
InitStore(phase, bOnboarded, waiting, exchange, goal) ==
  LET onboarded == (IF phase = "onboarded" THEN {"a"} ELSE {})
                     \cup (IF bOnboarded THEN {"b"} ELSE {})
      signup == SignupEmails(onboarded)
      first == SignupGoals(onboarded)
  IN /\ profiles = [x \in Addrs |->
                      IF x \in onboarded THEN OnboardedProfile(x)
                      ELSE IF x = "a" /\ phase = "created" THEN NewProfile
                      ELSE NoProfile]
     /\ goals = CASE goal = "done" ->
                       [first EXCEPT ![1] = [@ EXCEPT !.completed = TRUE,
                                                      !.completed_at = -1]]
                  [] goal = "two" -> Append(first, NewGoal("a", "next goal", 0))
                  [] OTHER -> first
     /\ emails = InsertedEach(<<>>, signup \o
                   (CASE exchange = "none" -> <<>>
                      [] exchange = "plain" ->
                           PriorExchange(Len(signup) + 1, NoNote, TRUE)
                      [] OTHER ->
                           PriorExchange(Len(signup) + 1, PriorNote(bOnboarded), TRUE)))
     /\ pending_emails = IF waiting THEN PriorPending ELSE <<>>
     /\ groups = <<>>
     /\ group_members = {}
     /\ group_goals = <<>>
     /\ outbox = <<>>
     /\ req = [r \in Reqs |-> IdleRequest]

Exchanges == {"none", "plain", "cc"}

GoalPhases == {"open", "done", "two"}

Init ==
  /\ rt = RetryOff
  /\ HandlerOnly
  /\ secretConfigured \in BOOLEAN
  /\ scope = [overlap |-> FALSE, requests |-> MaxRequests, narrow |-> FALSE,
              job |-> FALSE, clock |-> FALSE, redelivery |-> FALSE,
              faults |-> FALSE]
  /\ \E phase \in Phases, bOnboarded \in BOOLEAN, waiting \in BOOLEAN,
        exchange \in Exchanges, goal \in GoalPhases :
       /\ phase = "onboarded" => ~waiting
       /\ phase # "onboarded" => exchange = "none"
       /\ goal # "open" => exchange # "none"
       /\ InitStore(phase, bOnboarded, waiting, exchange, goal)

(***************************************************************************)
(* pages/api/email/inbound.ts: POST, entry and dispatch                    *)
(***************************************************************************)
Set(r, rec) == req' = [req EXCEPT ![r] = rec]

\* return new Response(JSON.stringify(body), {status}): the handler's locals
\* end with the call. A finished request keeps the delivery's signature (of a
\* rejected delivery), type and sender, the profile it was dispatched on,
\* its provider id, how many model calls it awaited and whether one failed,
\* what the onboarding extraction reported, and the response.
Respond(rec, resp) ==
  [IdleRequest EXCEPT !.pc = "done", !.response = resp, !.sig = rec.sig,
                      !.json = rec.json, !.type = rec.type,
                      !.from = rec.from, !.profile = rec.profile,
                      !.aiFailed = rec.aiFailed, !.modelCalls = rec.modelCalls,
                      !.extraction = rec.extraction,
                      !.delivery = rec.delivery]

\* The catch of POST: {error: "Internal server error"}, status 500.
InternalError == Response(500, "absent", "")

\* The signature headers of a delivery: signed by the provider, signed with
\* something else, or absent.
SigKinds == {"valid", "invalid", "missing"}

EventTypes == {"email.received", "email.delivered"}

\* The svix-id header of delivery r: the provider's id of the event, the same
\* when it delivers the event again. The event is a new one (r) or, in a run
\* that studies redelivery (scope.redelivery), the one of an earlier delivery.
DeliveryIds(r) == IF scope.redelivery THEN 1..r ELSE {r}

\* A webhook delivery reaches POST: one after the other, or (scope.overlap)
\* while earlier ones are in flight. A validly signed body is the provider's
\* JSON; any other body may be no JSON at all.
Arrive(r) ==
  /\ req[r].pc = "idle"
  /\ r <= scope.requests
  /\ \A q \in 1..(r - 1) : IF scope.overlap THEN req[q].pc # "idle"
                            ELSE req[q].pc = "done"
  /\ \E sig \in Inputs(SigKinds, {"valid"}), json \in BOOLEAN,
        delivery \in DeliveryIds(r) :
       /\ sig = "valid" => json
       /\ Set(r, [req[r] EXCEPT !.pc = "verify", !.sig = sig, !.json = json,
                                !.delivery = delivery])
  /\ UNCHANGED <<env, store, outbox>>

\* A bug that lets every parseable body through, whatever its signature.
verifyResendWebhookUnchecked(secret, sig, json) == json

\* lib/security.ts verifyResendWebhook: .verified
verifyResendWebhook(secret, sig, json) ==
  IF ~secret THEN json ELSE sig = "valid"

\* const verification = await verifyResendWebhook(...); if (!verification.verified) 401
\* Past the check the handler works on verification.payload alone.
VerifySignature(r) ==
  /\ req[r].pc = "verify"
  /\ Set(r, IF verifyResendWebhook(secretConfigured, req[r].sig, req[r].json)
            THEN [IdleRequest EXCEPT !.pc = "filter", !.delivery = req[r].delivery]
            ELSE Respond(req[r], Response(401, "absent", "")))
  /\ UNCHANGED <<env, store, outbox>>

\* A bug that processes every event type.
IsReceivedAlways(type) == TRUE

IsReceived(type) == type = "email.received"

\* const {type, data} = payload; the type filter and the sender check. The
\* payload's fields are drawn where the handler first reads them.
FilterEvent(r) ==
  /\ req[r].pc = "filter"
  /\ \E type \in Inputs(EventTypes, {"email.received"}),
        from \in Inputs(Senders \cup {NULL}, Senders),
        subject \in Inputs(Subjects, {<<>>}) :
       LET got == [req[r] EXCEPT !.type = type, !.from = from, !.subject = subject]
       IN IF ~IsReceived(type)
          THEN /\ from = NULL /\ subject = <<>>
               /\ Set(r, Respond([req[r] EXCEPT !.type = type],
                                 Response(200, "absent", "")))
          ELSE IF from = NULL
          THEN /\ subject = <<>>
               /\ Set(r, Respond(got, Response(400, "absent", "")))
          ELSE Set(r, [got EXCEPT !.pc = "lookup"])
  /\ UNCHANGED <<env, store, outbox>>

\* The CC lists a message can carry.
CCLists == SUBSET (Addrs \ Senders)

\* What a statement sent to the store can come to: it is carried out, or the
\* client gives back {data: null, error} (the store unreachable, a timeout)
\* and nothing is written. The failures are drawn in a run that studies them
\* (scope.faults).
StoreFails == IF scope.faults THEN BOOLEAN ELSE {FALSE}

\* const {data: profile, error: profileError} = await profiles.select(...)
\*   .eq("email", senderEmail).single(); if (profileError || !profile): the
\* profile the dispatch sees.
ProfileFound(addr, profileError) ==
  IF profileError THEN NoProfile ELSE profiles[addr]

\* profiles.select(...).eq("email", senderEmail).single() and the dispatch on it
LookupProfile(r) ==
  /\ req[r].pc = "lookup"
  /\ \E profileError \in StoreFails :
       LET profile == ProfileFound(req[r].from, profileError)
       IN IF ~profile.exists
          THEN Set(r, [req[r] EXCEPT !.pc = "na_find"])
          ELSE IF ~profile.onboarded
          THEN \E userMessage \in Statements :
                 Set(r, [req[r] EXCEPT !.profile = profile,
                                       !.userMessage = userMessage,
                                       !.pc = "ob_parse"])
          ELSE \E cc \in Inputs(CCLists, {{}}) :
                 Set(r, [req[r] EXCEPT
                           !.profile = profile,
                           !.firstName = IF profile.first_name = NULL THEN "there"
                                         ELSE profile.first_name,
                           !.cc = cc,
                           !.pc = IF cc # {} THEN "cc" ELSE "thread"])
  /\ UNCHANGED <<env, store, outbox>>

(***************************************************************************)
(* handleNonAuthenticatedUser                                              *)
(***************************************************************************)
\* The positions of the rows of a table that satisfy P, oldest first.
Rows(table, P(_)) == {i \in 1..Len(table) : P(table[i])}

Max(S) == CHOOSE x \in S : \A y \in S : y <= x
Min(S) == CHOOSE x \in S : \A y \in S : x <= y

\* pending_emails.select("id, thread_id").eq("email", senderEmail)
\*   .order("created_at", {ascending: false}).limit(1).single()
FindExistingPending(r) ==
  /\ req[r].pc = "na_find"
  /\ LET mine == Rows(pending_emails, LAMBDA p : p.email = req[r].from)
     IN Set(r, [req[r] EXCEPT
                  !.pc = "na_insert",
                  !.existingPending = mine # {},
                  !.existingThread =
                     IF mine = {} THEN 0 ELSE pending_emails[Max(mine)].thread_id])
  /\ UNCHANGED <<env, store, outbox>>

\* pending_emails.insert({email, subject, content, thread_id}).select("id").single()
\* The row's id is new (row 1 is the one of an earlier delivery); msg is the
\* delivery whose text it holds.
InsertPending(r) ==
  /\ req[r].pc = "na_insert"
  /\ pending_emails' = Append(pending_emails,
       [id |-> r + 1, email |-> req[r].from,
        subject |-> SubjectOr(req[r].subject, "no subject"), msg |-> r,
        thread_id |-> req[r].existingThread, linked_user_id |-> NULL, by |-> r])
  /\ Set(r, [req[r] EXCEPT
               !.pendingId = r + 1,
               !.pc = IF req[r].existingThread = 0 THEN "na_thread" ELSE "na_send"])
  /\ UNCHANGED <<env, profiles, goals, emails, groups,
                 group_members, outbox>>

\* pending_emails.update({thread_id: pendingEmail.id}).eq("id", pendingEmail.id)
SetPendingThread(r) ==
  /\ req[r].pc = "na_thread"
  /\ pending_emails' =
       [i \in 1..Len(pending_emails) |->
          IF pending_emails[i].id = req[r].pendingId
          THEN [pending_emails[i] EXCEPT !.thread_id = req[r].pendingId]
          ELSE pending_emails[i]]
  /\ Set(r, [req[r] EXCEPT !.pc = "na_send"])
  /\ UNCHANGED <<env, profiles, goals, emails, groups,
                 group_members, outbox>>

\* A bug that hands an accepted message to the transport twice.
SentTwice(accepted, m) == IF accepted THEN outbox \o <<m, m>> ELSE outbox

\* A bug that reports every message as sent and hands none to the transport.
SentNothing(accepted, m) == outbox

\* lib/resend.ts sendEmail: the transport accepts the message, or sendEmail
\* throws. Sent(accepted, m) is the outbox after the call.
Sent(accepted, m) == IF accepted THEN Append(outbox, m) ELSE outbox


\* await sendEmail({to: senderEmail, ...}); return {success, action: "intro_sent", isFirstEmail}
SendIntro(r) ==
  /\ req[r].pc = "na_send"
  /\ \E accepted \in BOOLEAN :
       /\ outbox' = Sent(accepted,
            Mail(req[r].from, ReplySubject(req[r].subject, "hello"),
                 IF req[r].existingPending THEN "reminder" ELSE "intro", r))
       /\ Set(r, Respond(req[r], IF accepted THEN Response(200, "true", "intro_sent")
                                 ELSE InternalError))
  /\ UNCHANGED <<env, store>>


(***************************************************************************)
(* handleOnboardingReply                                                   *)
(***************************************************************************)
\* What a model call made through withRetry gives its caller: a result, or a
\* thrown error (AI not configured, an authorization error, or the error of
\* the last attempt); every caller in the handler catches all of them alike.
OnboardingOutcomes == {"throw", "incomplete", "complete"}

\* A bug that does not look at onboarding.parsed.
AfterOnboardingUnchecked(o) ==
  IF o = "throw" THEN "ob_fallback" ELSE "ob_profile"

\* Where handleOnboardingReply goes after the extraction: the catch, the
\* clarification (!onboarding.parsed), or the completion.
AfterOnboarding(o) ==
  CASE o = "throw" -> "ob_fallback"
    [] o = "incomplete" -> "ob_clar_send"
    [] OTHER -> "ob_profile"

\* lib/ai.ts parseOnboardingReply(userMessage): the model is given this one
\* text and reports parsed: true iff it could extract both name and goal from
\* it; a failed call throws.
parseOnboardingReply(userMessage) ==
  {o \in OnboardingOutcomes :
     \/ o = "throw"
     \/ (o = "complete") = (userMessage = {"name", "goal"})}

\* const onboarding = await parseOnboardingReply(userMessage): the text of
\* the delivery at hand.
ParseOnboardingReply(r) ==
  /\ req[r].pc = "ob_parse"
  /\ \E o \in parseOnboardingReply(req[r].userMessage) :
       Set(r, [req[r] EXCEPT
                 !.aiFailed = (o = "throw"), !.extraction = o,
                 !.modelCalls = @ + 1,
                 !.pc = AfterOnboarding(o)])
  /\ UNCHANGED <<env, store, outbox>>

\* await sendEmail({to: senderEmail, ...clarification}); a throw lands in the
\* function's own catch.
SendClarification(r) ==
  /\ req[r].pc = "ob_clar_send"
  /\ \E accepted \in BOOLEAN :
       /\ outbox' = Sent(accepted,
            Mail(req[r].from, ReplySubject(req[r].subject, "let's get you set up"),
                 "clarification", r))
       /\ Set(r, [req[r] EXCEPT !.pc = IF accepted THEN "ob_clar_store"
                                       ELSE "ob_fallback"])
  /\ UNCHANGED <<env, store>>

\* emails.insert([{inbound ...}, {outbound ...}]): no thread_id is given.
OnboardingRows(r, kind) ==
  <<NewEmail(req[r].from, "inbound", SubjectOr(req[r].subject, "onboarding"),
             "inbound", NoNote, r, 0, r),
    NewEmail(req[r].from, "outbound",
             ReplySubject(req[r].subject, "let's get you set up"),
             kind, NoNote, 0, 0, r)>>

\* The text of the message stays on record with the row (content: userMessage).
StoreClarification(r) ==
  /\ req[r].pc = "ob_clar_store"
  /\ emails' = Inserted(emails, OnboardingRows(r, "clarification"))
  /\ Set(r, [Respond(req[r], Response(200, "true", "onboarding_clarification"))
               EXCEPT !.userMessage = req[r].userMessage])
  /\ UNCHANGED <<env, profiles, goals, pending_emails, groups,
                 group_members, outbox>>

\* profiles.update({first_name, onboarded: true}).eq("user_id", userId), then
\* auth.admin.updateUserById(userId, {email_confirm: true})
CompleteProfile(r) ==
  /\ req[r].pc = "ob_profile"
  /\ profiles' = [profiles EXCEPT ![req[r].from] =
                    [@ EXCEPT !.first_name = NameOf(req[r].from), !.onboarded = TRUE]]
  /\ Set(r, [req[r] EXCEPT !.pc = "ob_goal"])
  /\ UNCHANGED <<env, goals, emails, pending_emails, groups,
                 group_members, outbox>>

\* goals.insert({user_id, description: goalDescription, due_date})
InsertFirstGoal(r) ==
  /\ req[r].pc = "ob_goal"
  /\ \E now \in Now :
       goals' = Append(goals, GoalAt(now, req[r].from, "onboarding goal", r))
  /\ Set(r, [req[r] EXCEPT !.pc = "ob_pending"])
  /\ UNCHANGED <<env, profiles, emails, pending_emails, groups,
                 group_members, outbox>>

\* pending_emails.select("*").eq("email", senderEmail)
SelectPending(r) ==
  /\ req[r].pc = "ob_pending"
  /\ LET read == SelectSeq(pending_emails, LAMBDA p : p.email = req[r].from)
     IN Set(r, [req[r] EXCEPT !.pendingRead = read,
                              !.pc = IF read # <<>> THEN "ob_link" ELSE "ob_send"])
  /\ UNCHANGED <<env, store, outbox>>

\* A bug that retires the provisional messages without copying them.
CopiesNone(user, read, by) == <<>>

\* for (const pe of pendingEmails) emails.insert({user_id, direction: "inbound",
\*   subject: pe.subject, content: pe.content}): the rows of the loop, which
\* carry no thread_id.
Copies(user, read, by) ==
  [i \in 1..Len(read) |->
     NewEmail(user, "inbound", read[i].subject, "inbound", NoNote, read[i].msg, 0, by)]

LinkPending(r) ==
  /\ req[r].pc = "ob_link"
  /\ emails' = InsertedEach(emails, Copies(req[r].from, req[r].pendingRead, r))
  /\ Set(r, [req[r] EXCEPT !.pc = "ob_delete"])
  /\ UNCHANGED <<env, profiles, goals, pending_emails, groups,
                 group_members, outbox>>

\* pending_emails.delete().eq("email", senderEmail)
DeletePending(r) ==
  /\ req[r].pc = "ob_delete"
  /\ pending_emails' = SelectSeq(pending_emails, LAMBDA p : p.email # req[r].from)
  /\ Set(r, [req[r] EXCEPT !.pc = "ob_send"])
  /\ UNCHANGED <<env, profiles, goals, emails, groups,
                 group_members, outbox>>

\* await sendEmail({to: senderEmail, ...welcome}); a throw lands in the
\* function's own catch.
SendWelcome(r) ==
  /\ req[r].pc = "ob_send"
  /\ \E accepted \in BOOLEAN :
       /\ outbox' = Sent(accepted,
            Mail(req[r].from, ReplySubject(req[r].subject, "let's get you set up"),
                 "welcome", r))
       /\ Set(r, [req[r] EXCEPT !.pc = IF accepted THEN "ob_store" ELSE "ob_fallback"])
  /\ UNCHANGED <<env, store>>

StoreWelcome(r) ==
  /\ req[r].pc = "ob_store"
  /\ emails' = Inserted(emails, OnboardingRows(r, "welcome"))
  /\ Set(r, Respond(req[r], Response(200, "true", "onboarding_complete")))
  /\ UNCHANGED <<env, profiles, goals, pending_emails, groups,
                 group_members, outbox>>

\* catch (error) { await sendEmail({...fallbackText}); return onboarding_fallback }
\* A throw of this send reaches the catch of POST.
SendOnboardingFallback(r) ==
  /\ req[r].pc = "ob_fallback"
  /\ \E accepted \in BOOLEAN :
       /\ outbox' = Sent(accepted,
            Mail(req[r].from, ReplySubject(req[r].subject, "let's get you set up"),
                 "onboarding_fallback", r))
       /\ Set(r, Respond(req[r],
                         IF accepted THEN Response(200, "true", "onboarding_fallback")
                         ELSE InternalError))
  /\ UNCHANGED <<env, store>>


(***************************************************************************)
(* POST, the onboarded sender: CC note, thread, inbound row, active goal   *)
(***************************************************************************)
\* e.split("@")[0]
PrefixOf(addr) == addr

\* n.charAt(0).toUpperCase() + n.slice(1).toLowerCase()
Capitalize(n) ==
  CASE n = "a" -> "A" [] n = "b" -> "B" [] n = "ann" -> "Ann" [] n = "bob" -> "Bob"
    [] OTHER -> n

\* u.first_name || u.email.split("@")[0]
DisplayName(addr) ==
  IF profiles[addr].first_name = NULL THEN PrefixOf(addr) ELSE profiles[addr].first_name

\* handleCCUsers: the note for a CC list. The note for people with no account
\* ("i noticed you cc'd ... group goals together") is replaced by the invitation
\* ("i see you cc'd ... - they're already using alphamail ... group
\* accountability session") when a CC'd account is not in the sender's group.
CCNoteFor(sender, cc, group) ==
  LET existingUsers == {x \in cc : profiles[x].exists}
      nonUsers == cc \ existingUsers
      plain == IF nonUsers # {}
               THEN [note |-> "nonuser", names |-> {PrefixOf(x) : x \in nonUsers}]
               ELSE NoNote
      invite == [note |-> "invite", names |-> {DisplayName(x) : x \in existingUsers}]
      groupUserIds == {m.user_id : m \in {n \in group_members : n.group_id = group}}
  IN IF existingUsers = {} THEN plain
     ELSE IF group = 0 THEN invite
     ELSE IF existingUsers \subseteq groupUserIds THEN plain ELSE invite

\* ccNote = await handleCCUsers(...). group_members.select("group_id")
\*   .eq("user_id", senderUserId).limit(1).single() returns any one membership.
HandleCCUsers(r) ==
  /\ req[r].pc = "cc"
  /\ LET mine == {m.group_id : m \in {n \in group_members : n.user_id = req[r].from}}
     IN \E group \in (IF mine = {} THEN {0} ELSE mine) :
          Set(r, [req[r] EXCEPT !.ccNote = CCNoteFor(req[r].from, req[r].cc, group),
                                !.pc = "thread"])
  /\ UNCHANGED <<env, store, outbox>>

\* hay contains needle as a contiguous run of words, whatever the case
\* (ilike '%needle%').
Contains(hay, needle) ==
  \E i \in 1..(Len(hay) - Len(needle) + 1) :
    LowerSeq(SubSeq(hay, i, i + Len(needle) - 1)) = LowerSeq(needle)

\* (subject || "").replace(/^re:\s*/i, "").trim()
CleanSubject(subject) == IF StartsWithRe(subject) THEN Tail(subject) ELSE subject

\* emails.select("thread_id").eq("user_id", ...).ilike("subject", `%${safeSubject}%`)
\*   .not("thread_id", "is", null).order("created_at", {ascending: false}).limit(1)
\* A bug that orders the matching rows oldest first.
LatestOfOldestFirst(table, found) ==
  {i \in found : \A j \in found : table[i].created_at <= table[j].created_at}

\* A bug that drops the order: any matching row can come back.
LatestOfUnordered(table, found) == found

\* .order("created_at", {ascending: false}).limit(1): the rows the statement
\* can return, those of found that no other row of found is newer than.
LatestOf(table, found) ==
  {i \in found : \A j \in found : table[j].created_at <= table[i].created_at}

\* The thread ids the lookup can give (0: none). The lookup is skipped for an
\* empty cleanSubject.
ThreadsOf(user, subject) ==
  LET clean == CleanSubject(subject)
      found == Rows(emails, LAMBDA e : /\ e.user_id = user
                                         /\ Contains(e.subject, clean)
                                         /\ e.thread_id # 0)
  IN IF clean = <<>> \/ found = {} THEN {0}
     ELSE {emails[i].thread_id : i \in LatestOf(emails, found)}

THREAD_HISTORY_LIMIT == 20
RECENT_HISTORY_LIMIT == 10

\* The ids in S as a sequence, ascending.
RECURSIVE Ascending(_)
Ascending(S) == IF S = {} THEN <<>> ELSE <<Min(S)>> \o Ascending(S \ {Min(S)})

FirstN(seq, n) == SubSeq(seq, 1, IF Len(seq) < n THEN Len(seq) ELSE n)
LastN(seq, n) == SubSeq(seq, IF Len(seq) < n THEN 1 ELSE Len(seq) - n + 1, Len(seq))

\* The conversation history: the thread's rows ascending, limit 20; or, with no
\* thread, the sender's rows descending, limit 10, reversed.
HistoryOf(user, thread) ==
  IF thread # 0
  THEN FirstN(Ascending(Rows(emails, LAMBDA e : e.thread_id = thread)),
              THREAD_HISTORY_LIMIT)
  ELSE LastN(Ascending(Rows(emails, LAMBDA e : e.user_id = user)),
             RECENT_HISTORY_LIMIT)

\* Thread resolution by subject, then the history read.
ResolveThread(r) ==
  /\ req[r].pc = "thread"
  /\ \E threadId \in ThreadsOf(req[r].from, req[r].subject) :
       Set(r, [req[r] EXCEPT !.threadId = threadId,
                             !.history = HistoryOf(req[r].from, threadId),
                             !.pc = "inbound"])
  /\ UNCHANGED <<env, store, outbox>>

\* emails.insert({user_id, direction: "inbound", subject: subject || "No subject",
\*   content: userMessage, thread_id: threadId}).select("id").single()
\* The error of the insert is not read: with data null (inboundEmail) the
\* handler goes on to the goal lookup.
StoreInbound(r) ==
  /\ req[r].pc = "inbound"
  /\ \E failed \in StoreFails :
       IF failed
       THEN /\ emails' = emails
            /\ Set(r, [req[r] EXCEPT !.pc = "goal"])
       ELSE /\ emails' = Inserted(emails,
                 <<NewEmail(req[r].from, "inbound",
                            SubjectOr(req[r].subject, "no subject"),
                            "inbound", NoNote, r, req[r].threadId, r)>>)
            /\ Set(r, [req[r] EXCEPT
                         !.inboundId = Len(emails) + 1,
                         !.pc = IF req[r].threadId = 0 THEN "self_thread" ELSE "goal"])
  /\ UNCHANGED <<env, profiles, goals, pending_emails, groups,
                 group_members, outbox>>

\* A bug that leaves the row without a thread.
SelfThreadedNever(table, id) == table

\* emails.update({thread_id: id}).eq("id", id)
SelfThreaded(table, id) == [table EXCEPT ![id].thread_id = id]

\* if (!threadId && inboundEmail) { threadId = inboundEmail.id; emails.update(...) }
SetSelfThread(r) ==
  /\ req[r].pc = "self_thread"
  /\ emails' = SelfThreaded(emails, req[r].inboundId)
  /\ Set(r, [req[r] EXCEPT !.threadId = req[r].inboundId, !.pc = "goal"])
  /\ UNCHANGED <<env, profiles, goals, pending_emails, groups,
                 group_members, outbox>>

\* A bug that takes the oldest open goal.
ActiveGoalOldest(user) ==
  LET open == Rows(goals, LAMBDA g : g.user_id = user /\ ~g.completed)
  IN IF open = {} THEN 0 ELSE Min(open)

\* goals.select("*").eq("user_id", ...).eq("completed", false)
\*   .order("created_at", {ascending: false}).limit(1).single()
ActiveGoal(user) ==
  LET open == Rows(goals, LAMBDA g : g.user_id = user /\ ~g.completed)
  IN IF open = {} THEN 0 ELSE Max(open)

GetCurrentGoal(r) ==
  /\ req[r].pc = "goal"
  /\ Set(r, [req[r] EXCEPT !.currentGoal = ActiveGoal(req[r].from), !.pc = "group"])
  /\ UNCHANGED <<env, store, outbox>>


(***************************************************************************)
(* checkAndCreateGroup and the group confirmation                          *)
(***************************************************************************)
\* The names a message can give after "add", "with" or "include".
AddNameSets == {{}, {"bob"}}

\* emails.select("content").eq("user_id", userId).eq("direction", "outbound")
\*   .order("created_at", {ascending: false}).limit(3): ids, latest first
RecentOutbound(user) ==
  LET out == Ascending(Rows(emails, LAMBDA e : e.user_id = user
                                               /\ e.direction = "outbound"))
  IN LastN(out, 3)

\* recentContent.includes("group accountability") || includes("group goals")
\*   || includes("cc'd"): both CC notes carry one of the phrases.
MentionsGroup(recent) ==
  \E i \in 1..Len(recent) : emails[recent[i]].content.cc.note # "none"

\* recentContent.match(/cc'd\s+([\w\s,]+?)\s*[-...]/i): the names of the latest
\* invitation ("cc'd Bob - they're ..."); the other note has no dash to match.
CCMatchNames(recent) ==
  LET inv == {i \in 1..Len(recent) : emails[recent[i]].content.cc.note = "invite"}
  IN IF inv = {} THEN {} ELSE emails[recent[Max(inv)]].content.cc.names

\* profiles.select(...).in("first_name", targetNames.map(capitalize))
TargetProfiles(targetNames) ==
  {x \in Addrs : /\ profiles[x].exists
                 /\ profiles[x].first_name \in {Capitalize(n) : n \in targetNames}}

\* A bug that takes every affirmation for a confirmation.
AskedWithoutMention(confirm, recent) == confirm

\* confirmPatterns.some(p => p.test(message)) passed, and mentionedGroup
Asked(confirm, recent) == confirm /\ MentionsGroup(recent)

\* const groupResult = await checkAndCreateGroup(...): the confirmation test,
\* the look at the last three replies, the group and its members.
CheckAndCreateGroup(r) ==
  /\ req[r].pc = "group"
  /\ \E confirm \in Inputs(BOOLEAN, {FALSE}), addNames \in AddNameSets :
       LET recent == RecentOutbound(req[r].from)
           asked == Asked(confirm, recent)
           targetNames == IF addNames # {} THEN addNames ELSE CCMatchNames(recent)
           targets == IF asked THEN TargetProfiles(targetNames) ELSE {}
           created == targets # {}
           group == Len(groups) + 1
       IN /\ ~asked => addNames = {}
          /\ groups' = IF created THEN Append(groups, [created_by |-> req[r].from])
                       ELSE groups
          /\ group_members' =
               IF created
               THEN group_members \cup
                    {[group_id |-> group, user_id |-> x] : x \in targets \cup {req[r].from}}
               ELSE group_members
          /\ Set(r, [req[r] EXCEPT
                       !.confirm = confirm, !.addNames = addNames,
                       !.groupNote = created,
                       !.pc = IF created THEN "group_send"
                              ELSE IF req[r].currentGoal = 0 THEN "conv_ai"
                              ELSE "parse_ai"])
  /\ UNCHANGED <<env, profiles, goals, emails, pending_emails, outbox>>

\* The subject of every reply of POST.
replySubject(r) == ReplySubject(req[r].subject, "check-in")

\* A bug that records the reply with no thread.
OutboundRowUnthreaded(r, kind, note) ==
  NewEmail(req[r].from, "outbound", replySubject(r), kind, note, 0, 0, r)

\* emails.insert({user_id, direction: "outbound", subject: replySubject,
\*   content, thread_id: threadId})
OutboundRow(r, kind, note) ==
  NewEmail(req[r].from, "outbound", replySubject(r), kind, note, 0, req[r].threadId, r)

\* await sendEmail({to: profile.email, ...groupNote}); a throw reaches the catch of POST.
SendGroupConfirmation(r) ==
  /\ req[r].pc = "group_send"
  /\ \E accepted \in BOOLEAN :
       /\ outbox' = Sent(accepted, Mail(req[r].from, replySubject(r), "group", r))
       /\ Set(r, IF accepted THEN [req[r] EXCEPT !.pc = "group_store"]
                 ELSE Respond(req[r], InternalError))
  /\ UNCHANGED <<env, store>>

StoreGroupReply(r) ==
  /\ req[r].pc = "group_store"
  /\ emails' = Inserted(emails, <<OutboundRow(r, "group", NoNote)>>)
  /\ Set(r, Respond(req[r], Response(200, "true", "group_created")))
  /\ UNCHANGED <<env, profiles, goals, pending_emails, groups,
                 group_members, outbox>>

(***************************************************************************)
(* POST, no active goal: open conversation                                 *)
(***************************************************************************)
\* alphaResponse = await generateConversation(...), caught by the handler; then
\* the goal-intent pattern on the message text.
GenerateConversation(r) ==
  /\ req[r].pc = "conv_ai"
  /\ \E threw \in BOOLEAN, intent \in BOOLEAN :
       /\ threw => ~intent
       /\ Set(r, [req[r] EXCEPT
                    !.aiFailed = threw, !.intent = intent, !.modelCalls = @ + 1,
                    !.pc = IF threw THEN "fallback"
                           ELSE IF intent THEN "conv_goal" ELSE "conv_send"])
  /\ UNCHANGED <<env, store, outbox>>

\* goals.insert({user_id, description: goalMatch[1]..., due_date})
InsertIntentGoal(r) ==
  /\ req[r].pc = "conv_goal"
  /\ \E now \in Now :
       goals' = Append(goals, GoalAt(now, req[r].from, "intent goal", r))
  /\ Set(r, [req[r] EXCEPT !.pc = "conv_send"])
  /\ UNCHANGED <<env, profiles, emails, pending_emails, groups,
                 group_members, outbox>>

SendConversationReply(r) ==
  /\ req[r].pc = "conv_send"
  /\ \E accepted \in BOOLEAN :
       /\ outbox' = Sent(accepted, Mail(req[r].from, replySubject(r), "conversation", r))
       /\ Set(r, IF accepted THEN [req[r] EXCEPT !.pc = "conv_store"]
                 ELSE Respond(req[r], InternalError))
  /\ UNCHANGED <<env, store>>

\* The outbound row, updateUserSummary(...) started and not awaited, the response.
StoreConversationReply(r) ==
  /\ req[r].pc = "conv_store"
  /\ emails' = Inserted(emails, <<OutboundRow(r, "conversation", req[r].ccNote)>>)
  /\ Set(r, [Respond(req[r], Response(200, "true", "conversation"))
               EXCEPT !.summary = "started"])
  /\ UNCHANGED <<env, profiles, goals, pending_emails, groups,
                 group_members, outbox>>

(***************************************************************************)
(* POST, active goal: check-in                                             *)
(***************************************************************************)
\* Where the check-in path goes after a step, by what is left to do.
AfterParse(parsed) ==
  IF parsed.completed THEN "complete"
  ELSE IF parsed.nextGoal THEN "next_goal" ELSE "annotate"

\* parsed = await parseUserReply(userMessage, currentGoal.description), caught
\* by the handler.
ParseUserReply(r) ==
  /\ req[r].pc = "parse_ai"
  /\ \E threw \in BOOLEAN, completed \in BOOLEAN, nextGoal \in BOOLEAN :
       LET parsed == [completed |-> completed, nextGoal |-> nextGoal]
       IN /\ threw => parsed = NoParsed
          /\ Set(r, [req[r] EXCEPT
                       !.aiFailed = threw, !.parsed = parsed, !.modelCalls = @ + 1,
                       !.pc = IF threw THEN "fallback" ELSE AfterParse(parsed)])
  /\ UNCHANGED <<env, store, outbox>>

\* goals.update({completed: true, completed_at: new Date().toISOString()})
\*   .eq("id", currentGoal.id); the time of the write is the request's own.
MarkGoalComplete(r) ==
  /\ req[r].pc = "complete"
  /\ goals' = [goals EXCEPT ![req[r].currentGoal] =
                 [@ EXCEPT !.completed = TRUE, !.completed_at = r]]
  /\ Set(r, [req[r] EXCEPT !.pc = IF req[r].parsed.nextGoal THEN "next_goal"
                                  ELSE "annotate"])
  /\ UNCHANGED <<env, profiles, emails, pending_emails, groups,
                 group_members, outbox>>

\* goals.insert({user_id, description: parsed.nextGoal, due_date})
CreateNextGoal(r) ==
  /\ req[r].pc = "next_goal"
  /\ \E now \in Now :
       goals' = Append(goals, GoalAt(now, req[r].from, "next goal", r))
  /\ Set(r, [req[r] EXCEPT !.pc = "annotate"])
  /\ UNCHANGED <<env, profiles, emails, pending_emails, groups,
                 group_members, outbox>>

\* if (inboundEmail) emails.update({summary: parsed.progress, mood: parsed.mood})
\*   .eq("id", inboundEmail.id)
AnnotateInbound(r) ==
  /\ req[r].pc = "annotate"
  /\ emails' = IF req[r].inboundId = 0 THEN emails
               ELSE [emails EXCEPT ![req[r].inboundId].annotated = TRUE]
  /\ Set(r, [req[r] EXCEPT !.pc = "alpha_ai"])
  /\ UNCHANGED <<env, profiles, goals, pending_emails, groups,
                 group_members, outbox>>

\* alphaResponse = await generateAlphaResponse(...), caught by the handler.
GenerateAlphaResponse(r) ==
  /\ req[r].pc = "alpha_ai"
  /\ \E threw \in BOOLEAN, ask \in BOOLEAN :
       /\ threw => ~ask
       /\ Set(r, [req[r] EXCEPT !.aiFailed = threw, !.askForNextGoal = ask,
                                !.modelCalls = @ + 1,
                                !.pc = IF threw THEN "fallback" ELSE "checkin_send"])
  /\ UNCHANGED <<env, store, outbox>>

\* let responseText = alphaResponse.message;
\* if (alphaResponse.askForNextGoal) responseText += "so what's your goal for
\* this week?"; else if (parsed.nextGoal) responseText += "got it. your new
\* goal: ..."
Closing(askForNextGoal, nextGoal) ==
  IF askForNextGoal THEN "ask"
  ELSE IF nextGoal THEN "acknowledge" ELSE "none"

SendCheckinReply(r) ==
  /\ req[r].pc = "checkin_send"
  /\ \E accepted \in BOOLEAN :
       /\ outbox' = Sent(accepted,
            [Mail(req[r].from, replySubject(r), "checkin", r) EXCEPT
               !.closing = Closing(req[r].askForNextGoal, req[r].parsed.nextGoal)])
       /\ Set(r, IF accepted THEN [req[r] EXCEPT !.pc = "checkin_store"]
                 ELSE Respond(req[r], InternalError))
  /\ UNCHANGED <<env, store>>

\* A bug that tags the check-in response like the others.
CheckinResponseTagged == Response(200, "true", "checkin")

\* return new Response(JSON.stringify({success: true, parsed, threadId}), {status: 200})
CheckinResponse == Response(200, "true", "")

\* The outbound row, updateUserSummary(...) started and not awaited, and the
\* response {success: true, parsed, threadId}.
StoreCheckinReply(r) ==
  /\ req[r].pc = "checkin_store"
  /\ emails' = Inserted(emails, <<OutboundRow(r, "checkin", req[r].ccNote)>>)
  /\ Set(r, [Respond(req[r], CheckinResponse) EXCEPT !.summary = "started"])
  /\ UNCHANGED <<env, profiles, goals, pending_emails, groups,
                 group_members, outbox>>

(***************************************************************************)
(* sendFallbackEmail and updateUserSummary                                 *)
(***************************************************************************)
FallbackResponse(accepted) ==
  IF accepted THEN Response(200, "true", "fallback_sent") ELSE InternalError

\* await sendFallbackEmail(profile.email, firstName, subject); return
\* {success: true, action: "fallback_sent"}. A throw reaches the catch of POST.
SendFallbackEmail(r) ==
  /\ req[r].pc = "fallback"
  /\ \E accepted \in BOOLEAN :
       /\ outbox' = Sent(accepted, Mail(req[r].from, replySubject(r), "fallback", r))
       /\ Set(r, Respond(req[r], FallbackResponse(accepted)))
  /\ UNCHANGED <<env, store>>

\* A bug that awaits the summary before the response: a failure of it becomes
\* the request's.
UpdateUserSummaryAwaited(r) ==
  /\ req[r].summary = "started"
  /\ \E threw \in BOOLEAN :
       /\ profiles' = IF threw \/ ~profiles[req[r].from].exists THEN profiles
                      ELSE [profiles EXCEPT ![req[r].from].summary = r]
       /\ Set(r, IF threw
                 THEN [req[r] EXCEPT !.summary = "failed", !.response = InternalError]
                 ELSE [req[r] EXCEPT !.summary = "done"])
  /\ UNCHANGED <<env, goals, emails, pending_emails, groups,
                 group_members, outbox>>

\* updateUserSummary, in the background: generateUserSummary, then
\* profiles.update({summary}); any error is caught and logged.
UpdateUserSummary(r) ==
  /\ req[r].summary = "started"
  /\ \E threw \in BOOLEAN :
       /\ profiles' = IF threw \/ ~profiles[req[r].from].exists THEN profiles
                      ELSE [profiles EXCEPT ![req[r].from].summary = r]
       /\ Set(r, [req[r] EXCEPT !.summary = IF threw THEN "failed" ELSE "done"])
  /\ UNCHANGED <<env, goals, emails, pending_emails, groups,
                 group_members, outbox>>

(***************************************************************************)
(* Account creation, outside the handler                                   *)
(***************************************************************************)
\* supabase/migrations: handle_new_user, the trigger on auth.users that inserts
\* the profile (user_id, email), not onboarded.
handle_new_user(addr) ==
  /\ ~profiles[addr].exists
  /\ profiles' = [profiles EXCEPT ![addr] = NewProfile]
  /\ UNCHANGED <<env, goals, emails, pending_emails, groups,
                 group_members, outbox, req>>

\* pages/api/user/link-pending-emails.ts POST {userId, email}, called for an
\* address that has an account: the provisional messages of the address not
\* linked yet are marked with the account (linked_user_id, linked_at) and
\* copied into emails. The rows stay in pending_emails. With nothing to link
\* the endpoint answers linked: 0 and writes nothing.
link_pending_emails(email) ==
  /\ \A r \in Reqs : req[r].pc \in {"idle", "done"}
  /\ profiles[email].exists
  /\ LET pendingEmails ==
           SelectSeq(pending_emails,
                     LAMBDA p : p.email = email /\ p.linked_user_id = NULL)
     IN /\ pendingEmails # <<>>
        /\ pending_emails' =
             [i \in 1..Len(pending_emails) |->
                IF pending_emails[i].email = email
                   /\ pending_emails[i].linked_user_id = NULL
                THEN [pending_emails[i] EXCEPT !.linked_user_id = email]
                ELSE pending_emails[i]]
        /\ emails' = InsertedEach(emails, Copies(email, pendingEmails, 0))
  /\ UNCHANGED <<env, profiles, goals, groups, group_members, outbox, req>>

(***************************************************************************)
(* pages/api/email/checkin.ts: POST, the weekly check-in job               *)
(***************************************************************************)
\* The job's mails and rows are attributed to it as to a request of its own.
JobId == MaxRequests + 2

\* The addresses in the order a select returns them.
AddrSeq == <<"a", "b">>

\* goals.select(`id, user_id, ..., profiles!inner (email, ..., email_status)`)
\*   .eq("completed", false).eq("profiles.onboarded", true)
CheckinGoals ==
  LET open == Ascending(Rows(goals, LAMBDA g : /\ ~g.completed
                                               /\ profiles[g.user_id].exists
                                               /\ profiles[g.user_id].onboarded))
  IN [i \in 1..Len(open) |->
        [id |-> open[i], user_id |-> goals[open[i]].user_id,
         email_status |-> profiles[goals[open[i]].user_id].email_status]]

\* A bug that skips the bounced and still writes to those who complained.
UndeliverableBouncedOnly(email_status) == email_status = "bounced"

\* profile.email_status && profile.email_status !== "active"
Undeliverable(email_status) == email_status # NULL /\ email_status # "active"

\* The members of a group the job writes to: those whose email_status is not
\* bounced or complained; none when the group has no open group goal or fewer
\* than two members, or fewer than two such members.
GroupRecipients(group) ==
  LET members == SelectSeq(AddrSeq,
                   LAMBDA x : [group_id |-> group, user_id |-> x] \in group_members)
      activeGoal == \E i \in 1..Len(group_goals) :
                      group_goals[i].group_id = group /\ ~group_goals[i].completed
      activeMembers == SelectSeq(members,
                         LAMBDA x : profiles[x].email_status \notin {"bounced", "complained"})
  IN IF ~activeGoal \/ Len(members) < 2 \/ Len(activeMembers) < 2 THEN <<>>
     ELSE activeMembers

\* if (cronSecret && authHeader !== `Bearer ${cronSecret}`) 401; the goals
\* select; if (!goals || goals.length === 0) 200 "No active goals found".
CronStart ==
  /\ job.pc = "idle"
  /\ scope.job
  /\ \E bearer \in BOOLEAN :
       job' = IF cronSecret /\ ~bearer
              THEN [job EXCEPT !.pc = "done", !.response = Response(401, "absent", "")]
              ELSE IF CheckinGoals = <<>>
              THEN [job EXCEPT !.pc = "done", !.response = Response(200, "absent", "")]
              ELSE [job EXCEPT !.pc = "loop", !.goals = CheckinGoals, !.k = 1]
  /\ UNCHANGED <<rt, secretConfigured, scope, cronSecret, group_goals, tr, store,
                 outbox, req>>

\* for (const goal of goals): the status test, then await sendEmail({to: email,
\*   subject: "sunday check-in", ...}); a throw is caught: errors.push(email).
CronSendCheckin ==
  /\ job.pc = "loop"
  /\ job.k <= Len(job.goals)
  /\ LET goal == job.goals[job.k]
     IN IF Undeliverable(goal.email_status)
        THEN /\ job' = [job EXCEPT !.skipped = @ + 1, !.k = @ + 1]
             /\ outbox' = outbox
        ELSE \E accepted \in BOOLEAN :
               /\ outbox' = Sent(accepted,
                    Mail(goal.user_id, <<"sunday", "check-in">>, "prompt", JobId))
               /\ job' = IF accepted THEN [job EXCEPT !.pc = "log"]
                         ELSE [job EXCEPT !.errors = Append(@, goal.user_id),
                                          !.k = @ + 1]
  /\ UNCHANGED <<rt, secretConfigured, scope, cronSecret, group_goals, tr, store, req>>

\* emails.insert({user_id, direction: "outbound", subject: "sunday check-in",
\*   content: text}).select("id").single(): no thread_id is given.
CronLogCheckin ==
  /\ job.pc = "log"
  /\ emails' = Inserted(emails,
       <<NewEmail(job.goals[job.k].user_id, "outbound", <<"sunday", "check-in">>,
                  "prompt", NoNote, 0, 0, JobId)>>)
  /\ job' = [job EXCEPT !.pc = "thread", !.logged = Len(emails) + 1]
  /\ UNCHANGED <<rt, secretConfigured, scope, cronSecret, group_goals, tr, profiles,
                 goals, pending_emails, groups, group_members, outbox, req>>

\* emails.update({thread_id: emailRecord.id}).eq("id", emailRecord.id); sent++
CronSetThread ==
  /\ job.pc = "thread"
  /\ emails' = SelfThreaded(emails, job.logged)
  /\ job' = [job EXCEPT !.pc = "loop", !.logged = 0, !.sent = @ + 1, !.k = @ + 1]
  /\ UNCHANGED <<rt, secretConfigured, scope, cronSecret, group_goals, tr, profiles,
                 goals, pending_emails, groups, group_members, outbox, req>>

\* groups.select(`id, group_members (...), group_goals (...)`), after the loop
\* over the goals; the groups the job writes to, with their recipients.
CronSelectGroups ==
  /\ job.pc = "loop"
  /\ job.k > Len(job.goals)
  /\ LET all == [g \in 1..Len(groups) |-> GroupRecipients(g)]
     IN job' = [job EXCEPT !.pc = "groups", !.g = 1, !.m = 1,
                           !.groups = SelectSeq(all, LAMBDA to : to # <<>>)]
  /\ UNCHANGED <<rt, secretConfigured, scope, cronSecret, group_goals, tr, store,
                 outbox, req>>

\* for (const email of memberEmails) await sendEmail({to: email, subject:
\*   "sunday group check-in", ...}); groupsSent++ after the last one; a throw
\* ends the group's sends. Nothing is logged in emails.
CronSendGroupCheckin ==
  /\ job.pc = "groups"
  /\ job.g <= Len(job.groups)
  /\ LET to == job.groups[job.g]
     IN \E accepted \in BOOLEAN :
          /\ outbox' = Sent(accepted, Mail(to[job.m], <<"sunday", "group", "check-in">>,
                                           "group_prompt", JobId))
          /\ job' = IF ~accepted THEN [job EXCEPT !.g = @ + 1, !.m = 1]
                    ELSE IF job.m < Len(to) THEN [job EXCEPT !.m = @ + 1]
                    ELSE [job EXCEPT !.g = @ + 1, !.m = 1, !.groupsSent = @ + 1]
  /\ UNCHANGED <<rt, secretConfigured, scope, cronSecret, group_goals, tr, store, req>>

\* return {message, sent, groupsSent, skipped, errors}, status 200
CronRespond ==
  /\ job.pc = "groups"
  /\ job.g > Len(job.groups)
  /\ job' = [job EXCEPT !.pc = "done", !.response = Response(200, "absent", "")]
  /\ UNCHANGED <<rt, secretConfigured, scope, cronSecret, group_goals, tr, store,
                 outbox, req>>

Checkin ==
  \/ CronStart \/ CronSendCheckin \/ CronLogCheckin \/ CronSetThread
  \/ CronSelectGroups \/ CronSendGroupCheckin \/ CronRespond

\* The steps of POST up to the dispatch on the sender's profile.
Receive(r) ==
  \/ Arrive(r) \/ VerifySignature(r) \/ FilterEvent(r) \/ LookupProfile(r)

\* handleNonAuthenticatedUser and handleOnboardingReply.
Admit(r) ==
  \/ FindExistingPending(r) \/ InsertPending(r) \/ SetPendingThread(r) \/ SendIntro(r)
  \/ ParseOnboardingReply(r) \/ SendClarification(r) \/ StoreClarification(r)
  \/ CompleteProfile(r) \/ InsertFirstGoal(r) \/ SelectPending(r) \/ LinkPending(r)
  \/ DeletePending(r) \/ SendWelcome(r) \/ StoreWelcome(r) \/ SendOnboardingFallback(r)

\* The CC note and the group confirmation of an onboarded sender.
Group(r) ==
  \/ HandleCCUsers(r) \/ SendGroupConfirmation(r) \/ StoreGroupReply(r)

\* The reply to an onboarded sender: open conversation or check-in.
Reply(r) ==
  \/ ResolveThread(r) \/ StoreInbound(r) \/ SetSelfThread(r)
  \/ GetCurrentGoal(r) \/ CheckAndCreateGroup(r) \/ GenerateConversation(r)
  \/ InsertIntentGoal(r) \/ SendConversationReply(r) \/ StoreConversationReply(r)
  \/ ParseUserReply(r) \/ MarkGoalComplete(r) \/ CreateNextGoal(r)
  \/ AnnotateInbound(r) \/ GenerateAlphaResponse(r) \/ SendCheckinReply(r)
  \/ StoreCheckinReply(r) \/ SendFallbackEmail(r) \/ UpdateUserSummary(r)

Next ==
  \/ \E r \in Reqs : Receive(r) \/ Admit(r) \/ Group(r) \/ Reply(r)
  \/ \E addr \in Senders : handle_new_user(addr)
  \/ \E addr \in Senders : link_pending_emails(addr)

\* Deliveries handled one after the other, from every state of the store.
Spec == Init /\ [][Next]_vars

\* handleOnboardingReply alone.
Onboard(r) ==
  \/ ParseOnboardingReply(r) \/ SendClarification(r) \/ StoreClarification(r)
  \/ CompleteProfile(r) \/ InsertFirstGoal(r) \/ SelectPending(r) \/ LinkPending(r)
  \/ DeletePending(r) \/ SendWelcome(r) \/ StoreWelcome(r) \/ SendOnboardingFallback(r)

\* The onboarding conversation of a sender whose account exists: the first
\* delivery and the ones after it, one at a time.
InitOnboarding ==
  /\ rt = RetryOff
  /\ HandlerOnly
  /\ secretConfigured = TRUE
  /\ scope = [overlap |-> FALSE, requests |-> MaxRequests + 1, narrow |-> TRUE,
              job |-> FALSE, clock |-> FALSE, redelivery |-> FALSE,
              faults |-> FALSE]
  /\ \E waiting \in BOOLEAN : InitStore("created", FALSE, waiting, "none", "open")

NextOnboarding == \E r \in Reqs : Receive(r) \/ Onboard(r)

SpecOnboarding == InitOnboarding /\ [][NextOnboarding]_vars

\* Exchanges of one thread on record before a delivery is looked at.
MaxExchanges == 11

\* An earlier check-in exchange of the sender in the thread of the first one:
\* the inbound row and the reply, as POST stored them.
EarlierExchange ==
  /\ \A r \in Reqs : req[r].pc = "idle"
  /\ Len(emails) + 2 <= 1 + 2 * MaxExchanges
  /\ emails' = InsertedEach(emails, PriorExchange(emails[2].thread_id, NoNote, TRUE))
  /\ UNCHANGED <<env, profiles, goals, pending_emails, groups, group_members,
                 outbox, req>>

\* An onboarded sender with a check-in thread of any length writes in; the
\* run follows POST up to the history read.
InitHistory ==
  /\ rt = RetryOff
  /\ HandlerOnly
  /\ secretConfigured = TRUE
  /\ scope = [overlap |-> FALSE, requests |-> MaxRequests, narrow |-> FALSE,
              job |-> FALSE, clock |-> FALSE, redelivery |-> FALSE,
              faults |-> FALSE]
  /\ InitStore("onboarded", FALSE, FALSE, "plain", "open")

NextHistory == EarlierExchange \/ \E r \in Reqs : Receive(r) \/ ResolveThread(r)

SpecHistory == InitHistory /\ [][NextHistory]_vars

\* POST for an onboarded sender without an active goal.
Converse(r) ==
  \/ ResolveThread(r) \/ StoreInbound(r) \/ SetSelfThread(r)
  \/ GetCurrentGoal(r) \/ CheckAndCreateGroup(r) \/ GenerateConversation(r)
  \/ InsertIntentGoal(r) \/ SendConversationReply(r) \/ StoreConversationReply(r)
  \/ SendFallbackEmail(r) \/ UpdateUserSummary(r)

\* An onboarded sender whose goal is completed writes in, at any instant of
\* the week and with the server in any time zone.
InitConversation ==
  /\ rt = RetryOff
  /\ HandlerOnly
  /\ secretConfigured = TRUE
  /\ scope = [overlap |-> FALSE, requests |-> MaxRequests, narrow |-> TRUE,
              job |-> FALSE, clock |-> TRUE, redelivery |-> FALSE,
              faults |-> FALSE]
  /\ \E bOnboarded \in BOOLEAN, exchange \in Exchanges \ {"none"} :
       InitStore("onboarded", bOnboarded, FALSE, exchange, "done")

NextConversation == \E r \in Reqs : Receive(r) \/ Converse(r)

SpecConversation == InitConversation /\ [][NextConversation]_vars

\* Two check-in replies of an onboarded sender with an open goal, in flight
\* together: the platform runs one invocation of POST per delivery and nothing
\* orders them.
InitConc ==
  /\ rt = RetryOff
  /\ HandlerOnly
  /\ secretConfigured = TRUE
  /\ scope = [overlap |-> TRUE, requests |-> MaxRequests + 1, narrow |-> TRUE,
              job |-> FALSE, clock |-> FALSE, redelivery |-> FALSE,
              faults |-> FALSE]
  /\ InitStore("onboarded", FALSE, FALSE, "none", "open")

NextConc == \E r \in Reqs : Receive(r) \/ Reply(r)

SpecConc == InitConc /\ [][NextConc]_vars

\* An onboarded sender with an active goal, or with two goals open after a
\* check-in that named a next goal without completing the first, writes in
\* and, once answered, writes in again.
InitFollowUp ==
  /\ rt = RetryOff
  /\ HandlerOnly
  /\ secretConfigured = TRUE
  /\ scope = [overlap |-> FALSE, requests |-> MaxRequests + 1, narrow |-> TRUE,
              job |-> FALSE, clock |-> FALSE, redelivery |-> TRUE,
              faults |-> FALSE]
  /\ \E goal \in {"open", "two"} : InitStore("onboarded", FALSE, FALSE, "plain", goal)

SpecFollowUp == InitFollowUp /\ [][NextConc]_vars

\* Deliveries from an address that has no account yet, in flight together,
\* while its owner may sign up: every invocation of POST looks the profile up
\* for itself, so some are handled as the unknown sender's and some as the
\* onboarding reply of the new account.
InitAdmission ==
  /\ rt = RetryOff
  /\ HandlerOnly
  /\ secretConfigured = TRUE
  /\ scope = [overlap |-> TRUE, requests |-> MaxRequests + 1, narrow |-> TRUE,
              job |-> FALSE, clock |-> FALSE, redelivery |-> FALSE,
              faults |-> FALSE]
  /\ \E waiting \in BOOLEAN : InitStore("unknown", FALSE, waiting, "none", "open")

NextAdmission ==
  \/ \E r \in Reqs : Receive(r) \/ Admit(r)
  \/ \E addr \in Senders : handle_new_user(addr)

SpecAdmission == InitAdmission /\ [][NextAdmission]_vars

\* A delivery from a sender who has an account, onboarded or not, handled
\* while the store may fail the profile lookup and the insert of the inbound
\* row.
InitFaults ==
  /\ rt = RetryOff
  /\ HandlerOnly
  /\ secretConfigured = TRUE
  /\ scope = [overlap |-> FALSE, requests |-> MaxRequests, narrow |-> TRUE,
              job |-> FALSE, clock |-> FALSE, redelivery |-> FALSE,
              faults |-> TRUE]
  /\ \E phase \in {"created", "onboarded"}, waiting \in BOOLEAN,
        exchange \in {"none", "plain"}, goal \in {"open", "done"} :
       /\ phase = "onboarded" => ~waiting
       /\ phase # "onboarded" => exchange = "none"
       /\ goal # "open" => exchange # "none"
       /\ InitStore(phase, FALSE, waiting, exchange, goal)

NextFaults == \E r \in Reqs : Receive(r) \/ Admit(r) \/ Reply(r)

SpecFaults == InitFaults /\ [][NextFaults]_vars

\* The stores the weekly job can find. An address has no account, an account
\* that is not onboarded, or an onboarded one whose email_status is active,
\* bounced or complained.
AccountStates == {"none", "created", "active", "bounced", "complained"}

\* The goals of an onboarded account: one open, one completed, or two open.
GoalStates == {"none", "open", "done", "two"}

\* Group 1 of a and b: absent, without a group goal, or with a group goal
\* that is open or completed. group_goals rows are written by the members
\* through the database (the insert policy of migration 003).
GroupStates == {"none", "nogoal", "open", "done"}

AccountOf(x, state) ==
  CASE state = "none" -> NoProfile
    [] state = "created" -> NewProfile
    [] OTHER -> [OnboardedProfile(x) EXCEPT !.email_status = state]

GoalsOf(x, state) ==
  CASE state = "none" -> <<>>
    [] state = "open" -> <<NewGoal(x, "signup goal", 0)>>
    [] state = "done" -> <<[NewGoal(x, "signup goal", 0)
                              EXCEPT !.completed = TRUE, !.completed_at = -1]>>
    [] OTHER -> <<NewGoal(x, "signup goal", 0), NewGoal(x, "next goal", 0)>>

CronStore(sa, sb, ga, gb, grp) ==
  LET onboarded == (IF ga # "none" THEN {"a"} ELSE {}) \cup
                   (IF gb # "none" THEN {"b"} ELSE {})
  IN /\ profiles = [x \in Addrs |-> AccountOf(x, IF x = "a" THEN sa ELSE sb)]
     /\ goals = GoalsOf("a", ga) \o GoalsOf("b", gb)
     /\ emails = InsertedEach(<<>>, SignupEmails(onboarded))
     /\ pending_emails = <<>>
     /\ groups = IF grp = "none" THEN <<>> ELSE <<[created_by |-> "a"]>>
     /\ group_members = IF grp = "none" THEN {}
                        ELSE {[group_id |-> 1, user_id |-> x] : x \in Addrs}
     /\ group_goals = CASE grp = "open" -> <<[group_id |-> 1, completed |-> FALSE]>>
                         [] grp = "done" -> <<[group_id |-> 1, completed |-> TRUE]>>
                         [] OTHER -> <<>>
     /\ outbox = <<>>
     /\ req = [r \in Reqs |-> IdleRequest]

InitCron ==
  /\ rt = RetryOff
  /\ secretConfigured = TRUE
  /\ scope = [overlap |-> FALSE, requests |-> 0, narrow |-> FALSE, job |-> TRUE, clock |-> FALSE, redelivery |-> FALSE,
              faults |-> FALSE]
  /\ cronSecret \in BOOLEAN
  /\ job = IdleJob
  /\ tr = NoResolution
  /\ \E sa \in AccountStates, sb \in AccountStates, ga \in GoalStates,
        gb \in GoalStates, grp \in GroupStates :
       /\ ga = "none" <=> sa \in {"none", "created"}
       /\ gb = "none" <=> sb \in {"none", "created"}
       /\ grp # "none" => sa # "none" /\ sb # "none"
       /\ CronStore(sa, sb, ga, gb, grp)

\* The weekly job alone, on every store.
SpecCron == InitCron /\ [][Checkin]_vars

\* The service: deliveries handled one after the other, or a run of the
\* weekly job.
InitService == Init \/ InitCron

NextService == Next \/ Checkin

SpecService == InitService /\ [][NextService]_vars

(***************************************************************************)
(* Thread resolution as a function of the subject, the sender and the      *)
(* messages on record                                                      *)
(***************************************************************************)
\* The messages on record before the resolution.
MaxHistory == 3

\* The subjects of the messages on record, and the subjects looked up.
StoredSubjects == {<<"t1">>, <<"Re:", "T1">>, <<"t2">>}
LookupSubjects == {<<"RE:">>, <<"re:", "t1">>, <<"T1">>, <<"re:", "re:", "t1">>}

\* The thread ids of user's messages on record.
ThreadIdsOf(user) ==
  {emails[i].thread_id : i \in Rows(emails, LAMBDA e : e.user_id = user)} \ {0}

\* A message an earlier request, the signup page or the weekly job left: with
\* no thread (signup, onboarding), a thread of its own (a new conversation, a
\* weekly prompt) or attached to a thread of the same sender.
EarlierMessage ==
  /\ tr.pc = "start"
  /\ Len(emails) < MaxHistory
  /\ \E user \in Addrs, subject \in StoredSubjects :
     \E thread \in {0, Len(emails) + 1} \cup ThreadIdsOf(user) :
       emails' = Inserted(emails,
         <<NewEmail(user, "outbound", subject, "checkin", NoNote, 0, thread, 0)>>)
  /\ UNCHANGED <<env, profiles, goals, pending_emails, groups, group_members,
                 outbox, req>>

\* The two rows of an onboarding exchange, inserted by one statement.
EarlierOnboarding ==
  /\ tr.pc = "start"
  /\ Len(emails) + 2 <= MaxHistory
  /\ \E user \in Addrs, subject \in StoredSubjects :
       emails' = Inserted(emails,
         <<NewEmail(user, "inbound", subject, "inbound", NoNote, -1, 0, 0),
           NewEmail(user, "outbound", ReplySubject(subject, "let's get you set up"),
                    "welcome", NoNote, 0, 0, 0)>>)
  /\ UNCHANGED <<env, profiles, goals, pending_emails, groups, group_members,
                 outbox, req>>

\* The lookup of POST for a sender and a subject, on the store as it is.
ResolveOnce ==
  /\ tr.pc = "start"
  /\ \E user \in Senders, subject \in LookupSubjects :
     \E threadId \in ThreadsOf(user, subject) :
       tr' = [tr EXCEPT !.pc = "once", !.user = user, !.subject = subject,
                        !.first = threadId]
  /\ UNCHANGED <<rt, secretConfigured, scope, cronSecret, group_goals, job, store,
                 outbox, req>>

\* The same lookup, made again on the same store.
ResolveAgain ==
  /\ tr.pc = "once"
  /\ \E threadId \in ThreadsOf(tr.user, tr.subject) :
       tr' = [tr EXCEPT !.pc = "twice", !.second = threadId]
  /\ UNCHANGED <<rt, secretConfigured, scope, cronSecret, group_goals, job, store,
                 outbox, req>>

InitThread ==
  /\ rt = RetryOff
  /\ secretConfigured = TRUE
  /\ scope = [overlap |-> FALSE, requests |-> 0, narrow |-> FALSE, job |-> FALSE, clock |-> FALSE, redelivery |-> FALSE,
              faults |-> FALSE]
  /\ cronSecret = TRUE
  /\ job = IdleJob
  /\ tr = [NoResolution EXCEPT !.pc = "start"]
  /\ profiles = [x \in Addrs |-> OnboardedProfile(x)]
  /\ goals = SignupGoals(Addrs)
  /\ emails = <<>>
  /\ pending_emails = <<>>
  /\ groups = <<>>
  /\ group_members = {}
  /\ group_goals = <<>>
  /\ outbox = <<>>
  /\ req = [r \in Reqs |-> IdleRequest]

NextThread == EarlierMessage \/ EarlierOnboarding \/ ResolveOnce \/ ResolveAgain

SpecThread == InitThread /\ [][NextThread]_vars

InitRetry ==
  /\ rt \in {RetryStart(s) : s \in [1..MAX_RETRIES -> FnOutcomes]}
  /\ HandlerOnly
  /\ secretConfigured = TRUE
  /\ scope = [overlap |-> FALSE, requests |-> 0, narrow |-> FALSE, job |-> FALSE, clock |-> FALSE, redelivery |-> FALSE,
              faults |-> FALSE]
  /\ profiles = [x \in Addrs |-> NoProfile]
  /\ goals = <<>>
  /\ emails = <<>>
  /\ pending_emails = <<>>
  /\ groups = <<>>
  /\ group_members = {}
  /\ group_goals = <<>>
  /\ outbox = <<>>
  /\ req = [r \in Reqs |-> IdleRequest]

NextRetry == RetryLoopTest \/ RetryCall \/ RetryBackoff

SpecRetry == InitRetry /\ [][NextRetry]_vars

FairSpecRetry == SpecRetry /\ WF_vars(NextRetry)

RetryDone == rt.pc \in {"returned", "thrown"}

(***************************************************************************)
(* Claims about withRetry                                                  *)
(***************************************************************************)

\* C4: when every allowed attempt failed with a retryable error, the failure
\* withRetry propagates is an AIFailureError, not the last attempt's error.
C4_ExhaustedThrowsAIFailure ==
  (/\ rt.pc = "thrown"
   /\ rt.calls = rt.retries
   /\ \A k \in 1..rt.calls : ~rt.script[k].ok /\ ~IsAuthError(rt.script[k]))
  => rt.thrown.name = "AIFailureError"

\* C5: an attempt that fails with status 401 or 403 ends withRetry at once:
\* fn is not invoked again, no backoff delay follows it, and that very error
\* is the one thrown, on whichever attempt it happens.
C5_AuthErrorTerminal ==
  \A k \in 1..rt.calls :
    (~rt.script[k].ok /\ rt.script[k].status \in {401, 403}) =>
      /\ rt.pc = "thrown"
      /\ rt.thrown = rt.script[k]
      /\ rt.calls = k
      /\ Len(rt.delays) = k - 1

C5_Witness ==
  /\ rt.pc = "thrown"
  /\ rt.calls = 2
  /\ rt.script[2].status = 403
  /\ Len(rt.delays) = 1

\* The safety part shared by both readings of C6: at most MAX_RETRIES
\* invocations, the first success is returned with no further attempt, and a
\* delay is waited only between two attempts.
C6_Bounded ==
  /\ rt.calls <= MAX_RETRIES
  /\ rt.pc = "returned" =>
       /\ rt.script[rt.calls].ok
       /\ \A k \in 1..(rt.calls - 1) : ~rt.script[k].ok
  /\ RetryDone => Len(rt.delays) = rt.calls - 1
  /\ Len(rt.delays) <= MAX_RETRIES - 1

\* C6 as stated: ... and otherwise ends in a thrown failure after the third
\* attempt.
C6_ThrownAfterThirdAttempt ==
  /\ C6_Bounded
  /\ rt.pc = "thrown" => rt.calls = MAX_RETRIES

\* C6 as amended: withRetry always terminates; it invokes fn at most 3 times,
\* returns the first success without further attempts, and otherwise throws,
\* after the third attempt or right after an attempt that failed with 401 or
\* 403; a backoff delay is waited only between attempts, never after the last.
C6_Terminates ==
  /\ <>RetryDone
  /\ [](/\ C6_Bounded
        /\ rt.pc = "thrown" =>
             \/ rt.calls = MAX_RETRIES /\ ~IsAuthError(rt.thrown)
             \/ IsAuthError(rt.thrown) /\ rt.thrown = rt.script[rt.calls])

C6_Witness ==
  /\ rt.pc = "thrown"
  /\ rt.calls = MAX_RETRIES
  /\ Len(rt.delays) = MAX_RETRIES - 1
  /\ ~IsAuthError(rt.thrown)

(***************************************************************************)
(* Claims about the inbound handler                                        *)
(***************************************************************************)
\* The rows of a table, the mails and the goals that request r wrote.
RowsBy(table, r) == {i \in 1..Len(table) : table[i].by = r}
GoalsTouchedBy(gs, r) == {g \in 1..Len(gs) : gs[g].by = r \/ gs[g].completed_at = r}

\* Request r returns its response in this step.
Finishes(r) == req[r].pc # "done" /\ req'[r].pc = "done"

\* A finished email.received request whose sender had no account record.
UnknownSender(rec) ==
  /\ rec.pc = "done"
  /\ rec.type = "email.received"
  /\ rec.from # NULL
  /\ ~rec.profile.exists

\* The mails request r sent are exactly one intro or reminder to its sender.
OneIntro(box, r) ==
  /\ Cardinality(RowsBy(box, r)) = 1
  /\ \A i \in RowsBy(box, r) : /\ box[i].to = req[r].from
                                /\ box[i].kind \in {"intro", "reminder"}

C2_CompletedAtWrittenOnce ==
  [][\A g \in 1..Len(goals) :
       goals[g].completed =>
         /\ goals'[g].completed
         /\ goals'[g].completed_at = goals[g].completed_at]_vars

\* C3: for an onboarded sender, a request in which a model call failed sends
\* exactly one fallback email (none when the transport rejects it and the
\* response is a 500) and creates or updates no goal.
C3_FailureLeavesGoals ==
  \A r \in Reqs :
    (req[r].pc = "done" /\ req[r].aiFailed /\ req[r].profile.onboarded) =>
      /\ GoalsTouchedBy(goals, r) = {}
      /\ \A i \in RowsBy(outbox, r) : outbox[i].kind = "fallback"
      /\ Cardinality(RowsBy(outbox, r)) =
           (IF req[r].response.status = 200 THEN 1 ELSE 0)

\* C7: whenever the handler answers fallback_sent, the fallback email is on
\* record as an outbound message of the sender, attached to a thread.
C7_FallbackPersisted ==
  \A r \in Reqs :
    (req[r].pc = "done" /\ req[r].response.action = "fallback_sent") =>
      \E i \in RowsBy(emails, r) :
        /\ emails[i].direction = "outbound"
        /\ emails[i].content.kind = "fallback"
        /\ emails[i].user_id = req[r].from
        /\ emails[i].thread_id # 0

\* C8 as stated: a request whose signature is invalid or missing is answered
\* 401 before any processing, in every configuration: its check is its last
\* step and leaves the store and the outbox as they were.
C8_RejectedInEveryConfiguration ==
  [][\A r \in Reqs :
       (req[r].pc = "verify" /\ req[r].sig # "valid" /\ req'[r] # req[r]) =>
         /\ req'[r].pc = "done"
         /\ req'[r].response.status = 401
         /\ store' = store
         /\ outbox' = outbox]_vars

\* C8 as amended: when a webhook secret is configured, a request whose
\* signature is invalid or missing is answered 401 before any processing: no
\* dispatch, no store write, no outbound email. When none is configured the
\* signature is not looked at and only a body that is not JSON is answered 401.
C8_RejectedWhenSecretConfigured ==
  [][\A r \in Reqs :
       (/\ req[r].pc = "verify" /\ req'[r] # req[r]
        /\ IF secretConfigured THEN req[r].sig # "valid" ELSE ~req[r].json) =>
         /\ req'[r].pc = "done"
         /\ req'[r].response.status = 401
         /\ store' = store
         /\ outbox' = outbox]_vars

C8_Witness ==
  \E r \in Reqs :
    /\ secretConfigured
    /\ req[r].pc = "done"
    /\ req[r].sig = "missing"
    /\ req[r].response.status = 401
    /\ RowsBy(outbox, r) = {}

\* C9: a verified event whose type is not email.received is acknowledged with
\* status 200, and handling it changes no collection and sends no email: the
\* type filter is the request's last step.
C9_IgnoredEventHasNoEffect ==
  /\ [](\A r \in Reqs :
          req[r].type \notin {NULL, "email.received"} =>
            /\ req[r].pc = "done"
            /\ req[r].response.status = 200
            /\ req[r].summary = "none")
  /\ [][\A r \in Reqs :
          (req[r].pc = "filter" /\ req'[r].type \notin {NULL, "email.received"}) =>
            /\ store' = store
            /\ outbox' = outbox]_vars

C9_Witness ==
  \E r \in Reqs :
    /\ req[r].type = "email.delivered"
    /\ req[r].pc = "done"
    /\ req[r].response.status = 200

\* C10: every reply email the handler sent is, once the request has returned,
\* on record as an outbound message of the same kind attached to a thread.
C10_EveryReplyPersisted ==
  \A r \in Reqs :
    req[r].pc = "done" =>
      \A m \in RowsBy(outbox, r) :
        \E i \in RowsBy(emails, r) :
          /\ emails[i].direction = "outbound"
          /\ emails[i].content.kind = outbox[m].kind
          /\ emails[i].thread_id # 0

(***************************************************************************)
(* Claims about the record of what was sent                                *)
(***************************************************************************)
\* The outbound rows that request or job by wrote for user, of one kind, and
\* the mails of that kind the transport accepted from it for user.
RecordedFor(by, user, kind) ==
  {i \in RowsBy(emails, by) : /\ emails[i].direction = "outbound"
                              /\ emails[i].user_id = user
                              /\ emails[i].content.kind = kind}

AcceptedFor(by, user, kind) ==
  {m \in RowsBy(outbox, by) : outbox[m].to = user /\ outbox[m].kind = kind}

\* C11: send-then-record. In the inbound handler and in the weekly job an
\* outbound message is on record only for a send the transport accepted: for
\* each request (or the job), recipient and kind of reply there are never more
\* outbound rows than accepted mails, and the step that inserts an outbound
\* row sends nothing itself.
C11_SendThenRecord ==
  /\ [](\A i \in 1..Len(emails) :
          (emails[i].direction = "outbound" /\ emails[i].by # 0) =>
            Cardinality(RecordedFor(emails[i].by, emails[i].user_id,
                                    emails[i].content.kind))
              <= Cardinality(AcceptedFor(emails[i].by, emails[i].user_id,
                                         emails[i].content.kind)))
  /\ [][Len(emails') > Len(emails) => outbox' = outbox]_vars

\* The job has sent and recorded one prompt, and another send was rejected
\* and left no row.
C11_Witness ==
  /\ job.pc = "done"
  /\ job.sent = 1
  /\ Len(job.errors) = 1
  /\ Cardinality(RowsBy(emails, JobId)) = 1
  /\ Cardinality(RowsBy(outbox, JobId)) >= 1

(***************************************************************************)
(* Claims about threads                                                    *)
(***************************************************************************)
\* Request r has stored its inbound message and settled its thread.
HasInbound(r) == req[r].inboundId # 0 /\ req[r].pc # "self_thread"

\* Request r started a thread of its own: its inbound message is the thread.
StartedThread(r) ==
  HasInbound(r) /\ emails[req[r].inboundId].thread_id = req[r].inboundId

\* The ids seq holds.
Ids(seq) == {seq[k] : k \in 1..Len(seq)}

\* The step of request r records an outbound reply.
RecordsReply(r) ==
  /\ req[r].inboundId # 0
  /\ Len(emails') = Len(emails) + 1
  /\ emails'[Len(emails')].by = r
  /\ emails'[Len(emails')].direction = "outbound"

\* What both readings of C12 share: when the resolution found no thread the
\* stored inbound message gets its own id as thread_id, that id is the
\* request's thread from then on, and an outbound reply the request records
\* carries the thread_id of its inbound message.
C12_SelfThread ==
  /\ [](\A r \in Reqs :
          /\ req[r].pc = "self_thread" =>
               /\ req[r].threadId = 0
               /\ emails[req[r].inboundId].thread_id = 0
          /\ HasInbound(r) =>
               /\ req[r].threadId # 0
               /\ emails[req[r].inboundId].thread_id = req[r].threadId)
  /\ [][\A r \in Reqs :
          /\ (req[r].pc = "inbound" /\ req[r].threadId = 0 /\ req'[r] # req[r]) =>
               req'[r].pc = "self_thread"
          /\ (req[r].pc = "self_thread" /\ req'[r] # req[r]) =>
               /\ emails'[req[r].inboundId].thread_id = req[r].inboundId
               /\ req'[r].threadId = req[r].inboundId
               /\ req'[r].inboundId = req[r].inboundId
          /\ RecordsReply(r) =>
               /\ emails[req[r].inboundId].thread_id # 0
               /\ emails'[Len(emails')].thread_id =
                    emails[req[r].inboundId].thread_id]_vars

\* C12 as stated: when thread resolution finds no thread, the stored inbound
\* message ends with thread_id equal to its own id, and that id is the thread
\* used for the history and for the outbound reply of the same request: the
\* history holds messages of that thread only.
C12_HistoryOfOwnThread ==
  /\ C12_SelfThread
  /\ [](\A r \in Reqs :
          StartedThread(r) =>
            \A h \in Ids(req[r].history) : emails[h].thread_id = req[r].inboundId)

\* C12 as amended: ... and that id is the thread of every outbound reply the
\* request records. The history given to the model is not that thread: it
\* is the sender's ten most recent messages, of whatever thread, as they
\* were before the inbound message was stored.
C12_HistoryOfRecentMessages ==
  /\ C12_SelfThread
  /\ [](\A r \in Reqs :
          StartedThread(r) =>
            Ids(req[r].history) =
              {h \in 1..(req[r].inboundId - 1) :
                 /\ emails[h].user_id = req[r].from
                 /\ Cardinality({j \in (h + 1)..(req[r].inboundId - 1) :
                                   emails[j].user_id = req[r].from})
                      < RECENT_HISTORY_LIMIT})

\* A request that started its own thread, with earlier messages of the sender
\* as its history, is about to record the reply it sent.
C12_Witness ==
  \E r \in Reqs :
    /\ StartedThread(r)
    /\ req[r].pc = "checkin_store"
    /\ req[r].history # <<>>
    /\ \A h \in Ids(req[r].history) : emails[h].thread_id # req[r].inboundId

\* The prompts the weekly job has sent, and the rows it has recorded.
PromptsSent == {m \in RowsBy(outbox, JobId) : outbox[m].kind = "prompt"}
PromptsRecorded == {i \in RowsBy(emails, JobId) : emails[i].content.kind = "prompt"}

Normalized(subject) ==
  IF subject # <<>> /\ Lower(Head(subject)) = "re:" THEN Tail(subject) ELSE subject

Matching(user, subject) ==
  {i \in 1..Len(emails) : /\ emails[i].user_id = user
                          /\ emails[i].thread_id # 0
                          /\ Contains(emails[i].subject, Normalized(subject))}

\* C14: thread resolution returns the thread_id of the most recently created
\* message of the sender that has a thread and whose subject contains the
\* normalized subject, case-insensitively; it returns null (0) when the
\* normalized subject is empty or no such message exists.
C14_ResolvesToLatestMatch ==
  tr.pc \in {"once", "twice"} =>
    LET found == Matching(tr.user, tr.subject)
    IN IF Normalized(tr.subject) = <<>> \/ found = {}
       THEN tr.first = 0
       ELSE \E i \in found :
              /\ tr.first = emails[i].thread_id
              /\ \A j \in found : emails[j].created_at <= emails[i].created_at

\* A reply subject resolved to the later of two threads that both match.
C14_Witness ==
  /\ tr.pc = "once"
  /\ StartsWithRe(tr.subject)
  /\ \E i \in Matching(tr.user, tr.subject), j \in Matching(tr.user, tr.subject) :
       /\ i < j
       /\ emails[i].thread_id # emails[j].thread_id
       /\ tr.first = emails[j].thread_id
  /\ \E k \in 1..Len(emails) : k \notin Matching(tr.user, tr.subject)

\* C15: thread resolution is deterministic: two resolutions with the same
\* subject, the same sender and the same messages on record return the same
\* thread id, also when several messages match.
C15_SameThreadTwice == tr.pc = "twice" => tr.first = tr.second

\* Two resolutions on a store where messages of two threads match.
C15_Witness ==
  /\ tr.pc = "twice"
  /\ tr.first # 0
  /\ tr.first = tr.second
  /\ \E i \in Matching(tr.user, tr.subject), j \in Matching(tr.user, tr.subject) :
       emails[i].thread_id # emails[j].thread_id

(***************************************************************************)
(* Claims about goals                                                      *)
(***************************************************************************)
\* The goals of user that are not completed, in table gs.
OpenGoals(gs, user) ==
  {g \in 1..Len(gs) : gs[g].user_id = user /\ ~gs[g].completed}

\* The pcs of the check-in path, from the extraction to the reply.
CheckinPcs ==
  {"parse_ai", "complete", "next_goal", "annotate", "alpha_ai", "checkin_send",
   "checkin_store"}

\* C16: whenever a sender has several goals with completed = false, the
\* handler treats the most recently created of them as the active goal: it is
\* the goal the request reads and runs the check-in extraction against, and
\* the only goal a request marks complete.
C16_LatestOpenGoalIsActive ==
  /\ [][\A r \in Reqs :
          (req[r].pc = "goal" /\ req'[r] # req[r]) =>
            LET open == OpenGoals(goals, req[r].from)
            IN IF open = {} THEN req'[r].currentGoal = 0
               ELSE /\ req'[r].currentGoal \in open
                    /\ \A h \in open : h <= req'[r].currentGoal]_vars
  /\ [](\A r \in Reqs :
          req[r].pc \in CheckinPcs =>
            /\ req[r].currentGoal # 0
            /\ goals[req[r].currentGoal].user_id = req[r].from)
  /\ [][\A g \in 1..Len(goals) :
          (~goals[g].completed /\ goals'[g].completed) =>
            /\ \E r \in Reqs : req[r].pc = "complete" /\ req[r].currentGoal = g
            /\ \A h \in OpenGoals(goals, goals[g].user_id) : h <= g]_vars

\* A sender had two open goals and a request completed the newer one.
C16_Witness ==
  \E g \in 1..Len(goals), h \in 1..Len(goals) :
    /\ g < h
    /\ goals[g].user_id = goals[h].user_id
    /\ ~goals[g].completed
    /\ goals[h].completed
    /\ goals[h].completed_at \in Reqs

\* The goals of user that were open before the first delivery of the run.
OpenAtStart(user) ==
  {g \in 1..Len(goals) : /\ goals[g].user_id = user
                         /\ goals[g].by = 0
                         /\ (~goals[g].completed \/ goals[g].completed_at \in Reqs)}

\* C17: when the inbound messages of a sender are processed one at a time
\* (no concurrent requests, no redelivery) and the sender started with at
\* most one open goal, the sender has at most one goal with completed = false
\* after every request.
C17_AtMostOneOpenGoal ==
  \A x \in Senders :
    (/\ Cardinality(OpenAtStart(x)) <= 1
     /\ \A r \in Reqs : req[r].pc \in {"idle", "done"}) =>
      Cardinality(OpenGoals(goals, x)) <= 1

(***************************************************************************)
(* Claims about the group confirmation                                     *)
(***************************************************************************)
\* Request r makes its group check in this step and takes the confirmation path.
ChecksGroup(r) == req[r].pc = "group" /\ req'[r] # req[r]
TakesGroupPath(r) == req'[r].pc = "group_send"

\* One of the sender's three most recent outbound messages carries a CC note
\* (the notes are what mentions group accountability, group goals or "cc'd").
RecentMention(user) ==
  \E i \in 1..Len(emails) :
    /\ emails[i].user_id = user
    /\ emails[i].direction = "outbound"
    /\ emails[i].content.cc.note # "none"
    /\ Cardinality({j \in (i + 1)..Len(emails) :
                      emails[j].user_id = user /\ emails[j].direction = "outbound"}) < 3

\* The accounts the confirmation names: those whose first name is a name the
\* message gives or, when it gives none, a name of the latest invitation.
NamedAccounts(r) ==
  TargetProfiles(IF req'[r].addNames # {} THEN req'[r].addNames
                 ELSE CCMatchNames(RecentOutbound(req[r].from)))

\* What the group check of request r creates in this step.
GroupCreated(r) ==
  /\ Len(groups') = Len(groups) + 1
  /\ groups'[Len(groups')].created_by = req[r].from
  /\ group_members' \ group_members =
       {[group_id |-> Len(groups'), user_id |-> x] :
          x \in NamedAccounts(r) \cup {req[r].from}}

\* A request on the confirmation path returns: no model call, no goal
\* touched; ok says whether the transport may have rejected the reply.
GroupPathEnds(r, mayFail) ==
  (req[r].pc \in {"group_send", "group_store"} /\ Finishes(r)) =>
    /\ req'[r].modelCalls = 0
    /\ goals' = goals
    /\ GoalsTouchedBy(goals', r) = {}
    /\ IF req'[r].response.status = 200
       THEN /\ req'[r].response.action = "group_created"
            /\ \E m \in RowsBy(outbox', r) : outbox'[m].kind = "group"
            /\ Cardinality(RowsBy(outbox', r)) = 1
       ELSE /\ mayFail
            /\ req'[r].response = InternalError
            /\ RowsBy(outbox', r) = {}

StepsAfterExtraction(r, o) == req'[r].extraction = o /\ req'[r] # req[r]

\* The step leaves the sender pending: no account, goal or provisional
\* message is written, and no provisional message is copied into emails.
StaysPending(r) ==
  /\ profiles' = profiles
  /\ goals' = goals
  /\ pending_emails' = pending_emails
  /\ \A i \in RowsBy(emails', r) : emails'[i].content.msg \in {0, r}

\* Request r sent exactly one mail, of this kind, to its sender.
SentOne(box, r, kind) ==
  /\ Cardinality(RowsBy(box, r)) = 1
  /\ \A m \in RowsBy(box, r) : box[m].kind = kind /\ box[m].to = req[r].from

\* C19 as stated: for a pending sender, when the onboarding extraction
\* reports incomplete, the handler sends a clarification and the sender stays
\* pending: onboarded and first name unchanged, no goal created, no
\* provisional message migrated or deleted.
C19_ClarificationSent ==
  [][\A r \in Reqs :
       StepsAfterExtraction(r, "incomplete") =>
         /\ StaysPending(r)
         /\ Finishes(r) =>
              /\ req'[r].response.action = "onboarding_clarification"
              /\ SentOne(outbox', r, "clarification")]_vars

\* C19 as amended: ... the sender stays pending, and the handler sends a
\* clarification (recorded with the inbound message, action
\* onboarding_clarification) unless the transport rejects it; then the
\* onboarding fallback is sent instead (action onboarding_fallback, nothing
\* recorded), or, if that is rejected too, nothing is sent and the response
\* is a 500.
C19_StaysPending ==
  [][\A r \in Reqs :
       StepsAfterExtraction(r, "incomplete") =>
         /\ StaysPending(r)
         /\ ~req'[r].profile.onboarded
         /\ req'[r].modelCalls = 1
         /\ Finishes(r) =>
              CASE req'[r].response.action = "onboarding_clarification" ->
                     /\ SentOne(outbox', r, "clarification")
                     /\ Cardinality(RowsBy(emails', r)) = 2
                [] req'[r].response.action = "onboarding_fallback" ->
                     /\ SentOne(outbox', r, "onboarding_fallback")
                     /\ RowsBy(emails', r) = {}
                [] OTHER ->
                     /\ req'[r].response = InternalError
                     /\ RowsBy(outbox', r) = {}
                     /\ RowsBy(emails', r) = {}]_vars

\* A pending sender with a provisional message on record got a clarification
\* and is still pending, the provisional message still waiting.
C19_Witness ==
  \E r \in Reqs :
    /\ req[r].pc = "done"
    /\ req[r].extraction = "incomplete"
    /\ req[r].response.action = "onboarding_clarification"
    /\ ~profiles[req[r].from].onboarded
    /\ profiles[req[r].from].first_name = NULL
    /\ pending_emails # <<>>
    /\ GoalsTouchedBy(goals, r) = {}

\* C20: for a pending sender, when the onboarding extraction reports both
\* name and goal, the request ends with the sender marked onboarded with the
\* extracted name, exactly one new goal with the extracted description, a
\* welcome email sent and action onboarding_complete; and a sender becomes
\* onboarded through the handler only in this case.
C20_OnboardingCompletes ==
  [][/\ \A r \in Reqs :
          (StepsAfterExtraction(r, "complete") /\ Finishes(r)) =>
            /\ profiles'[req'[r].from].onboarded
            /\ profiles'[req'[r].from].first_name = NameOf(req'[r].from)
            /\ Cardinality(RowsBy(goals', r)) = 1
            /\ \A g \in RowsBy(goals', r) :
                 /\ goals'[g].user_id = req'[r].from
                 /\ goals'[g].description = "onboarding goal"
                 /\ ~goals'[g].completed
            /\ SentOne(outbox', r, "welcome")
            /\ req'[r].response.action = "onboarding_complete"
     /\ \A x \in Addrs :
          (~profiles[x].onboarded /\ profiles'[x].onboarded) =>
            \E r \in Reqs : /\ req[r].from = x
                            /\ req[r].extraction = "complete"
                            /\ req'[r] # req[r]]_vars

(***************************************************************************)
(* Migration of the provisional messages                                   *)
(***************************************************************************)
\* The provisional messages of an address that no account was given yet.
Waiting(table, addr) ==
  {i \in 1..Len(table) : table[i].email = addr /\ table[i].linked_user_id = NULL}

\* The provisional message p has a Message record owned by the account.
CopiedTo(table, p) ==
  \E j \in 1..Len(table) :
    /\ table[j].user_id = p.email
    /\ table[j].direction = "inbound"
    /\ table[j].subject = p.subject
    /\ table[j].content.msg = p.msg

\* This step retires row i of pending_emails: deletes it or marks it linked.
Retires(i) ==
  /\ pending_emails[i].linked_user_id = NULL
  /\ \A j \in 1..Len(pending_emails') :
       pending_emails'[j].id = pending_emails[i].id
         => pending_emails'[j].linked_user_id # NULL

\* This step is the link endpoint's, for the address.
Links(addr) ==
  \E i \in Waiting(pending_emails, addr) :
    /\ i <= Len(pending_emails')
    /\ pending_emails'[i].linked_user_id = addr

\* Request r ends having made its sender's account an onboarded one.
CompletesOnboarding(r) ==
  /\ Finishes(r)
  /\ req[r].profile.exists
  /\ ~req[r].profile.onboarded
  /\ profiles'[req[r].from].onboarded

EarlierTurns(r) ==
  {q \in Reqs : /\ q # r
                /\ req[q].pc = "done"
                /\ req[q].from = req[r].from
                /\ req[q].response.action = "onboarding_clarification"}

\* What the sender has stated over the conversation, the delivery at hand
\* included.
Told(r) == req[r].userMessage \cup UNION {req[q].userMessage : q \in EarlierTurns(r)}

\* C22: on every onboarding turn the extraction works on the whole onboarding
\* conversation: when name and goal have both been stated by the sender, in
\* whichever turns, the extraction does not report incomplete and the turn,
\* unless a model call or a send fails, ends with onboarding complete.
C22_WholeConversationExtracted ==
  [][\A r \in Reqs :
       /\ req[r].pc = "ob_parse" /\ req'[r].pc # "ob_parse"
          /\ Told(r) = {"name", "goal"}
          => req'[r].extraction # "incomplete"
       /\ Finishes(r) /\ req[r].profile.exists /\ ~req[r].profile.onboarded
          /\ Told(r) = {"name", "goal"} /\ req'[r].response.status = 200
          /\ ~req'[r].aiFailed
          => req'[r].response.action \in {"onboarding_complete", "onboarding_fallback"}]_vars

(***************************************************************************)
(* Open conversation: the goal-intent pattern                              *)
(***************************************************************************)
\* Request r ends here with its open-conversation reply sent and recorded.
RepliesInConversation(r) == req[r].pc = "conv_store" /\ req'[r].pc = "done"

\* The day due is the first Sunday after the day the row was created on.
DueNextSunday(goal) ==
  /\ goal.due_date % 7 = 0
  /\ goal.created_on < goal.due_date
  /\ goal.due_date <= goal.created_on + 7

\* C23: an onboarded sender with no active goal. After a successful
\* open-conversation reply the request has created exactly one Goal, due next
\* Sunday, if the message text matches the goal-intent pattern, and none
\* otherwise, so that the sender has an active goal exactly in the first case;
\* a request whose model call failed has created no Goal.
C23_GoalIffIntent ==
  [][\A r \in Reqs :
       /\ RepliesInConversation(r) =>
            IF req[r].intent
            THEN /\ Cardinality(RowsBy(goals', r)) = 1
                 /\ \A i \in RowsBy(goals', r) : DueNextSunday(goals'[i])
                 /\ OpenGoals(goals', req[r].from) = RowsBy(goals', r)
            ELSE /\ RowsBy(goals', r) = {}
                 /\ OpenGoals(goals', req[r].from) = {}
       /\ Finishes(r) /\ req'[r].aiFailed => RowsBy(goals', r) = {}]_vars

(***************************************************************************)
(* Check-in: the next goal                                                 *)
(***************************************************************************)
\* C24: in the check-in path, whenever the extraction names a next goal, the
\* existing goal is marked complete if completed is true, exactly one new Goal
\* with the named description is created, and the reply sent does not ask the
\* sender for a next goal.
C24_NextGoalNotAskedAgain ==
  [][\A r \in Reqs :
       Finishes(r) /\ req[r].parsed.nextGoal =>
         /\ req[r].parsed.completed => goals'[req[r].currentGoal].completed
         /\ Cardinality(RowsBy(goals', r)) = 1
         /\ \A i \in RowsBy(goals', r) :
              /\ goals'[i].description = "next goal"
              /\ goals'[i].user_id = req[r].from
         /\ \A m \in RowsBy(outbox', r) : outbox'[m].closing # "ask"]_vars

(***************************************************************************)
(* Check-in: a completed goal and no next goal                             *)
(***************************************************************************)
\* Request r has ended; its extraction reported completed = true, so that it
\* marked its current goal complete, and named no next goal, so that it
\* inserted none.
CompletedWithoutNext(r) ==
  /\ req[r].pc = "done"
  /\ \E g \in 1..Len(goals) : goals[g].completed_at = r
  /\ RowsBy(goals, r) = {}

\* C25: after a check-in request whose extraction reported completed = true
\* and named no next goal, the next message of the sender finds no active
\* goal and takes the open-conversation path.
C25_NextMessageIsConversation ==
  [][\A r \in Reqs : \A q \in Reqs \ {r} :
       CompletedWithoutNext(r) /\ req[q].from = req[r].from =>
         /\ req[q].pc = "goal" /\ req'[q].pc # "goal" => req'[q].currentGoal = 0
         /\ req[q].pc = "group" /\ req'[q].pc # "group" => req'[q].pc = "conv_ai"]_vars

(***************************************************************************)
(* The journey summary                                                     *)
(***************************************************************************)
\* The reply of request r is in the outbox and its row in table.
RepliedAndRecorded(r, table) ==
  /\ \E m \in RowsBy(outbox, r) : outbox[m].kind \in {"conversation", "checkin"}
  /\ \E i \in RowsBy(table, r) :
       /\ table[i].direction = "outbound"
       /\ table[i].content.kind \in {"conversation", "checkin"}

\* C26: the regeneration of the journey summary is started only once the reply
\* was sent and recorded; the request returns its response in the step that
\* starts it, without waiting for it; and the step that ends it, with or
\* without an error, leaves the response, the goals, the messages and the
\* outbox as they were.
C26_SummaryInBackground ==
  [][\A r \in Reqs :
       /\ req[r].summary = "none" /\ req'[r].summary # "none" =>
            /\ req'[r].summary = "started"
            /\ Finishes(r)
            /\ req'[r].response.status = 200
            /\ RepliedAndRecorded(r, emails')
       /\ req[r].summary = "started" /\ req'[r].summary # "started" =>
            /\ req'[r].summary \in {"done", "failed"}
            /\ req'[r].pc = "done"
            /\ req'[r].response = req[r].response
            /\ goals' = goals /\ emails' = emails /\ outbox' = outbox]_vars

\* A request answered 200 whose summary regeneration failed afterwards.
C26_Witness ==
  \E r \in Reqs :
    /\ req[r].summary = "failed"
    /\ req[r].response.status = 200
    /\ RepliedAndRecorded(r, emails)

(***************************************************************************)
(* The conversation history of a thread                                    *)
(***************************************************************************)
\* C27: the conversation history read for a resolved thread is the messages
\* of that thread in ascending creation order, capped to the most recent 20
\* of them.
C27_MostRecentOfThread ==
  [][\A r \in Reqs :
       req[r].pc = "thread" /\ req'[r].pc # "thread" /\ req'[r].threadId # 0 =>
         req'[r].history =
           LastN(Ascending(Rows(emails, LAMBDA e : e.thread_id = req'[r].threadId)), 20)]_vars

(***************************************************************************)
(* The responses of the webhook                                            *)
(***************************************************************************)
\* C28 as stated: every response the webhook returns has a success boolean
\* and an action tag.
C28_AlwaysSuccessAndAction ==
  \A r \in Reqs :
    req[r].pc = "done" =>
      /\ req[r].response.success \in {"true", "false"}
      /\ req[r].response.action # ""

\* The action tag of the step a request returns from.
PathTag(pc) ==
  CASE pc = "na_send" -> "intro_sent"
    [] pc = "ob_clar_store" -> "onboarding_clarification"
    [] pc = "ob_store" -> "onboarding_complete"
    [] pc = "ob_fallback" -> "onboarding_fallback"
    [] pc = "group_store" -> "group_created"
    [] pc = "conv_store" -> "conversation"
    [] pc = "fallback" -> "fallback_sent"
    [] OTHER -> ""

\* C28, amended: a response has success (true) exactly when its status is 200
\* and the event was not ignored; it has an action tag, the one of the path
\* taken, exactly when it has success and the path is not the check-in reply;
\* the other responses (ignored event, 400, 401, 500) carry neither.
C28_ResponseShapes ==
  [][\A r \in Reqs :
       Finishes(r) =>
         LET p == req'[r].response
             at == req[r].pc
         IN /\ p.status \in {200, 400, 401, 500}
            /\ p.success \in {"true", "absent"}
            /\ (p.success = "true") = (p.status = 200 /\ at # "filter")
            /\ (p.action # "") = (p.success = "true" /\ at # "checkin_store")
            /\ p.action # "" => p.action = PathTag(at)]_vars

\* A check-in reply answered: success without an action tag.
C28_Witness ==
  \E r \in Reqs :
    /\ req[r].pc = "done"
    /\ req[r].response = [status |-> 200, success |-> "true", action |-> ""]
    /\ \E m \in RowsBy(outbox, r) : outbox[m].kind = "checkin"

(***************************************************************************)
(* Redelivery                                                              *)
(***************************************************************************)
\* Delivery r brings again the event that delivery q brought and that the
\* handler processed: the same provider id, type and sender.
Redelivers(r, q) ==
  /\ q # r
  /\ req[q].pc = "done"
  /\ req[q].response.status = 200
  /\ req[q].type = "email.received"
  /\ req[r].delivery = req[q].delivery
  /\ req[r].type = req[q].type
  /\ req[r].from = req[q].from

\* C29: a second delivery of the same event creates no Message, provisional
\* message or Goal row and sends no email.
C29_RedeliveryAddsNothing ==
  [][\A r \in Reqs :
       (\E q \in Reqs : Redelivers(r, q)) /\ req'[r] # req[r] =>
         /\ emails' = emails
         /\ pending_emails' = pending_emails
         /\ goals' = goals
         /\ outbox' = outbox]_vars

(***************************************************************************)
(* Transport errors                                                        *)
(***************************************************************************)
\* The steps of a request that await sendEmail.
SendPcs ==
  {"na_send", "ob_clar_send", "ob_send", "ob_fallback", "group_send", "conv_send",
   "checkin_send", "fallback"}

\* This step of request r is a sendEmail that threw: nothing reached the outbox.
SendFails(r) == req[r].pc \in SendPcs /\ req'[r] # req[r] /\ outbox' = outbox

\* Request r is in the catch of handleOnboardingReply and no model call of it
\* failed: a sendEmail of it threw.
SendFailedBefore(r) == req[r].pc = "ob_fallback" /\ ~req[r].aiFailed

\* C30: a request one of whose sends failed with a transport error, on any
\* path, is answered with a 500-class response.
C30_SendFailureAnswered500 ==
  [][\A r \in Reqs :
       Finishes(r) /\ (SendFails(r) \/ SendFailedBefore(r)) =>
         req'[r].response.status >= 500]_vars

(***************************************************************************)
(* The unknown sender's introduction                                       *)
(***************************************************************************)
\* The provisional messages of an address on record, oldest first.
ProvisionalOf(addr) == Rows(pending_emails, LAMBDA p : p.email = addr)

\* The introductions the transport accepted for an address.
IntrosTo(addr) ==
  {i \in DOMAIN outbox : outbox[i].kind = "intro" /\ outbox[i].to = addr}

\* C31: for an unknown sender the introduction is sent for the first
\* provisional message of the address and the reminder for every later one,
\* so at most one introduction is ever sent to an address, however the
\* deliveries interleave; the request is answered intro_sent either way.
C31_OneIntroductionPerAddress ==
  /\ \A addr \in Senders : Cardinality(IntrosTo(addr)) <= 1
  /\ \A i \in DOMAIN outbox :
       outbox[i].kind \in {"intro", "reminder"} =>
         LET m == outbox[i]
             stored == {j \in ProvisionalOf(m.to) : pending_emails[j].by = m.by}
         IN /\ req[m.by].response = Response(200, "true", "intro_sent")
            /\ stored # {} =>
                 ((m.kind = "intro") <=> (Min(stored) = Min(ProvisionalOf(m.to))))

(***************************************************************************)
(* The weekly job and addresses that bounced or complained                 *)
(***************************************************************************)
\* The accounts whose email_status is bounced or complained.
Suppressed == {x \in Addrs : profiles[x].email_status \in {"bounced", "complained"}}

\* The rows of the goals select the loop is done with.
LoopDone ==
  {k \in DOMAIN job.goals : k < job.k}

\* C32: a user whose email_status is bounced or complained is never sent a
\* weekly check-in, individual or group; in the loop over the goals each of
\* the user's rows is counted as skipped, never as sent or as an error.
C32_SuppressedNeverPrompted ==
  /\ \A i \in DOMAIN outbox :
       outbox[i].kind \in {"prompt", "group_prompt"} => outbox[i].to \notin Suppressed
  /\ job.pc # "idle" =>
       /\ job.skipped = Cardinality({k \in LoopDone : job.goals[k].user_id \in Suppressed})
       /\ job.sent + Len(job.errors)
            = Cardinality({k \in LoopDone : job.goals[k].user_id \notin Suppressed})
       /\ \A i \in DOMAIN job.errors : job.errors[i] \notin Suppressed

\* The job is through: it skipped a row of a suppressed account and wrote to
\* the other account.
C32_Witness ==
  /\ job.pc = "done"
  /\ job.skipped > 0
  /\ job.sent > 0
  /\ Suppressed # {}
  /\ \E i \in DOMAIN outbox : outbox[i].kind = "prompt"

(***************************************************************************)
(* Failures of the store                                                   *)
(***************************************************************************)
\* Request r, of an onboarded sender, is past the insert of its inbound row
\* and the row is not on record.
InboundNotStored(r) ==
  /\ req[r].profile.onboarded
  /\ req[r].pc \notin {"idle", "verify", "filter", "lookup", "cc", "thread", "inbound"}
  /\ \A i \in RowsBy(emails, r) : emails[i].direction # "inbound"

\* C33: when storing the inbound message of an onboarded sender fails, the
\* request fails: it makes no model call, creates or updates no goal, sends
\* no reply and is not answered with success.
C33_FailedStoreIsFatal ==
  \A r \in Reqs :
    InboundNotStored(r) =>
      /\ req[r].modelCalls = 0
      /\ GoalsTouchedBy(goals, r) = {}
      /\ \A i \in DOMAIN outbox : outbox[i].by # r
      /\ req[r].pc = "done" => req[r].response.success # "true"

\* C34: the unknown-sender flow is taken if and only if no account record
\* exists for the sender address; a sender that has a profile is never
\* dispatched to it, whatever the profile lookup comes to.
C34_UnknownIffNoAccount ==
  [][\A r \in Reqs :
       (req[r].pc = "lookup" /\ req'[r].pc # "lookup") =>
         ((req'[r].pc = "na_find") <=> ~profiles[req[r].from].exists)]_vars

(***************************************************************************)
(* Provisional messages while the account is completed                     *)
(***************************************************************************)
\* This step deletes row i of pending_emails.
Deleted(i) ==
  \A j \in 1..Len(pending_emails') : pending_emails'[j].id # pending_emails[i].id

\* C35: however an onboarding-completing request interleaves with
\* unknown-sender requests of the same address, no provisional message is
\* deleted without having been copied into a Message record of the account:
\* the rows a request deletes are the rows it read and copied.
C35_DeletedWereCopied ==
  [][\A r \in Reqs :
       (req[r].pc = "ob_delete" /\ req'[r].pc # "ob_delete") =>
         \A i \in 1..Len(pending_emails) :
           Deleted(i) =>
             /\ CopiedTo(emails', pending_emails[i])
             /\ \E k \in 1..Len(req[r].pendingRead) :
                  req[r].pendingRead[k].id = pending_emails[i].id]_vars

\* C40: however unknown-sender requests of one address interleave, once all
\* of them have finished every provisional message of the address has a
\* thread_id, and all have the thread_id of the first provisional message
\* stored for the address.
C40_OneProvisionalThread ==
  (\A r \in Reqs : req[r].pc \in {"idle", "done"}) =>
    \A addr \in Senders :
      \A i \in ProvisionalOf(addr) :
        /\ pending_emails[i].thread_id # 0
        /\ pending_emails[i].thread_id
             = pending_emails[Min(ProvisionalOf(addr))].thread_id

(***************************************************************************)
(* Threads of messages                                                     *)
(***************************************************************************)
\* C36: in every state of the store, every message with a thread_id t refers
\* to an existing message with id t whose own thread_id is t, of the same
\* sender and created no later: the messages of a thread belong to one
\* sender and the thread id is the id of the thread's first message.
C36_ThreadIsItsFirstMessage ==
  \A i \in 1..Len(emails) :
    emails[i].thread_id # 0 =>
      LET t == emails[i].thread_id
      IN /\ t \in 1..Len(emails)
         /\ emails[t].thread_id = t
         /\ emails[t].user_id = emails[i].user_id
         /\ emails[t].created_at <= emails[i].created_at
         /\ \A j \in 1..Len(emails) : emails[j].thread_id = t => t <= j

\* A request stored its inbound row and its reply in the thread that a
\* message of an earlier exchange started.
C36_Witness ==
  \E i \in 1..Len(emails), j \in 1..Len(emails) :
    /\ emails[i].by \in Reqs
    /\ emails[i].direction = "inbound"
    /\ emails[i].thread_id \notin {0, i}
    /\ emails[emails[i].thread_id].by = 0
    /\ emails[j].by = emails[i].by
    /\ emails[j].direction = "outbound"
    /\ emails[j].thread_id = emails[i].thread_id

\* The kinds of reply POST records for an onboarded sender with the thread
\* of the request: the group confirmation, the conversation reply and the
\* check-in reply.
ThreadedReplies == {"group", "conversation", "checkin"}

AnswersFallback(r) ==
  /\ Finishes(r)
  /\ req'[r].response.action = "onboarding_fallback"

\* C38: whenever the onboarding handler answers onboarding_fallback, the
\* sender is still pending and the store is as before the request: onboarded
\* and first name as they were, no goal created by the request, none of the
\* provisional messages it read deleted.
C38_FallbackLeavesStore ==
  [][\A r \in Reqs :
       AnswersFallback(r) =>
         /\ ~profiles'[req[r].from].onboarded
         /\ profiles'[req[r].from].first_name = req[r].profile.first_name
         /\ RowsBy(goals', r) = {}
         /\ \A k \in 1..Len(req[r].pendingRead) :
              \E i \in 1..Len(pending_emails') :
                pending_emails'[i].id = req[r].pendingRead[k].id]_vars

(***************************************************************************)
(* Every answered message is on record                                     *)
(***************************************************************************)
\* The inbound rows of table that hold the text of delivery r.
InboundOf(table, r) ==
  {i \in 1..Len(table) : /\ table[i].direction = "inbound"
                         /\ table[i].content.msg = r}

\* C39: every verified email.received message from a sender with an account
\* that is answered with a success response has been persisted as exactly
\* one inbound Message of that sender, with a thread_id, on every path,
\* onboarding and fallback included.
C39_AnsweredIsPersisted ==
  [][\A r \in Reqs :
       (/\ Finishes(r)
        /\ req[r].profile.exists
        /\ req'[r].response.success = "true") =>
         /\ Cardinality(InboundOf(emails', r)) = 1
         /\ \A i \in InboundOf(emails', r) :
              /\ emails'[i].user_id = req[r].from
              /\ emails'[i].thread_id # 0]_vars

====
